---- MODULE Spec2Model ----
(***************************************************************************)
(* A model of boxxy's enclosure: the rule engine (rule.rs), the filesystem *)
(* helpers (fs.rs) and the parent/child lifecycle of Enclosure::run        *)
(* (enclosure/mod.rs).                                                     *)
(*                                                                         *)
(* Paths are sequences of components as std::path::Path sees them: the     *)
(* first component of an absolute path is the root directory "/".  The     *)
(* filesystem is a function from the paths that exist to their nodes.      *)
(***************************************************************************)
EXTENDS Integers, Sequences, FiniteSets, TLC

VARIABLES
    rules,                \* config.rules.rules
    prog,                 \* config.command.get_program()
    trace,                \* config.trace
    immutable_root,       \* config.immutable_root
    cwd,                  \* std::env::current_dir()
    fs,                   \* the filesystem, as the parent's mount namespace sees it
    ppc,                  \* the parent's main thread: where it is in Enclosure::run
    rIdx,                 \* get_all_applicable_rules: index of the rule the loop is at
    tIdx,                 \* set_up_temporary_files: index of the rule the loop is at
    applicable,           \* applicable_rules
    picked,               \* history: for each pushed rule, its index in rules
    created_files,        \* Enclosure::created_files (parent's copy)
    created_directories,  \* Enclosure::created_directories (parent's copy)
    exit_status,          \* run_without_tracing's local exit_status
    child_exit_status,    \* Enclosure::child_exit_status
    kIdx,                 \* clean_up_container: how many recorded paths the loops are past
    pcode,                \* the parent's exit code once ppc = "exited"
    pexitBy,              \* history: who ended the parent: "main", "error", "handler"
    cpc,                  \* the cloned child: where it is in run_in_container
    cproc,                \* the child's kernel state
    cstatus,              \* the child's wait status once it has terminated
    cterm,                \* a SIGTERM is pending for the child
    cIdx,                 \* set_up_container: index of the rule the mount loop is at
    mounts,               \* the bind mounts of the child's mount namespace, oldest first
    croot,                \* how the child entered the container root
    cdir,                 \* the child's working directory, and the root it is under
    child_created_files,  \* Enclosure::created_files (the child's copy)
    cmd,                  \* how the sandboxed command ends
    hpc,                  \* the ctrlc handler thread
    hist,                 \* history of the handshake and of the handler's calls
    chan,                 \* the Syscall events the tracer has sent on tx
    rxIdx,                \* run_with_tracing: the next event rx.recv() returns
    buffer,               \* run_with_tracing: the lines of the report
    seen_paths,           \* run_with_tracing: seen_paths
    counter,              \* run_with_tracing: counter
    appendBase,           \* append_all: the argument buf
    appendParts,          \* append_all: the argument parts
    appendBuf,            \* append_all: the local buf
    appendIdx,            \* append_all: index of the part the loop is at
    mergeConfigs,         \* BoxxyConfig::merge: the argument configs
    merged,               \* BoxxyConfig::merge: merged.rules
    mergeIdx,             \* BoxxyConfig::merge: index of the config the loop is at
    linkArg,              \* maybe_resolve_symlink: the argument path
    linkPath,             \* do_resolve_symlink: path of the call that runs
    linkDepth,            \* do_resolve_symlink: depth of the call that runs
    linkCalls,            \* history: calls of do_resolve_symlink made so far
    linkResult,           \* maybe_resolve_symlink: what it returned, once it has
    rootCalls,            \* history: the setup_root / cleanup_root calls made
    idHelper,             \* map_uids / map_gids: the helper the function runs
    idArg,                \* map_uids / map_gids: the mapping the caller passed
    idMap,                \* map_uids / map_gids: the mapping, as it is now
    helperCalls,          \* history: how many times the helper was run
    helperLast,           \* history: what the last run of the helper did
    idResult,             \* map_uids / map_gids: what it returned, once it has
    children,             \* Tracer::children
    pids,                 \* Tracer::run: the pids the sweep has still to visit
    runResult,            \* Tracer::run: what it returned, once it has
    tx,                   \* Tracer::run: the Syscall events sent on tx
    procs,                \* the kernel's side of every process of the sandbox
    stops,                \* how many stops and deaths the kernel has reported
    thist,                \* history of what the tracer saw and did, and the run's limits
    mem,                  \* read_string: the tracee's memory from addr on, in bytes
    register_cache,       \* ChildProcess::register_cache
    rcall,                \* read_string: the call that runs, and the calls made
    envIn,                \* the inputs of the command's environment
    process_env,          \* std::env::vars() of the boxxy process
    command_env,          \* the variables set on config.command
    envPc,                \* where the making of the environment stands
    envIdx,               \* set_up_container: the applicable rule the loop is at
    spawn_env,            \* the environment the command was spawned with
    sysArch,              \* the target architecture of the syscall table
    syscall_registers,    \* SYSCALL_REGISTERS, as far as it is built
    sysIdx,               \* the insert that comes next
    proc_fd,              \* /proc/<pid>/fd of the tracee: what read_link gives
    fdCall                \* get_path_from_syscall: its arguments and its result

cfgVars == <<rules, prog, trace, immutable_root, cwd, cmd>>
ruleVars == <<rIdx, tIdx, applicable, picked>>
parentVars == <<ppc, created_files, created_directories, exit_status,
                child_exit_status, kIdx, pcode, pexitBy>>
childVars == <<cpc, cproc, cstatus, cterm, cIdx, mounts, croot, cdir,
              child_created_files>>
reportVars == <<chan, rxIdx, buffer, seen_paths, counter>>
appendVars == <<appendBase, appendParts, appendBuf, appendIdx>>
mergeVars == <<mergeConfigs, merged, mergeIdx>>
linkVars == <<linkArg, linkPath, linkDepth, linkCalls, linkResult>>
idVars == <<idHelper, idArg, idMap, helperCalls, helperLast, idResult>>
tracerVars == <<children, pids, runResult, tx, procs, stops, thist>>
readVars == <<mem, register_cache, rcall>>
envVars == <<envIn, process_env, command_env, envPc, envIdx, spawn_env>>
tableVars == <<sysArch, syscall_registers, sysIdx>>
fdVars == <<proc_fd, fdCall>>
extraVars == <<readVars, envVars, tableVars, fdVars>>
libVars == <<appendVars, mergeVars, linkVars, rootCalls, idVars, tracerVars, extraVars>>
vars == <<cfgVars, ruleVars, parentVars, childVars, fs, hpc, hist, reportVars, libVars>>

-----------------------------------------------------------------------------
(* Bounds of the model *)

MaxRules == 2
MaxEvents == 3
MaxParts == 2
MaxConfigs == 3
MaxConfigRules == 2
MaxRootCalls == 3
MaxChain == 12
MaxCycle == 10
MaxIds == 2
MaxHelperCalls == 5
MaxPids == 3
MaxStops == 5
WordBytes == 2
MaxPathWords == 2
MaxReadCalls == 2
MaxReadStops == 2

-----------------------------------------------------------------------------
(* Paths *)

Root == <<"/">>
Home == <<"/", "home">>

IsAbs(p) == Len(p) > 0 /\ p[1] = "/"

\* Path::starts_with: a component-wise prefix
StartsWith(p, q) == Len(q) <= Len(p) /\ SubSeq(p, 1, Len(q)) = q

\* Path::parent for a path of at least two components
Parent(p) == SubSeq(p, 1, Len(p) - 1)

Last(p) == p[Len(p)]

\* Path::file_name: the last component when it is a normal one; <<>> is None
FileName(p) == IF Len(p) > 0 /\ Last(p) # "/" THEN <<Last(p)>> ELSE <<>>

\* shellexpand::tilde
Tilde(p) == IF Len(p) > 0 /\ p[1] = "~" THEN Home \o Tail(p) ELSE p

\* Failed path results
ENOENT == <<"!ENOENT">>
ELOOP == <<"!ELOOP">>
TooManySymlinks == <<"!TooManySymlinks">>
IsErr(p) == p \in {ENOENT, ELOOP, TooManySymlinks}

-----------------------------------------------------------------------------
(* The filesystem *)

Dir == [kind |-> "dir", to |-> <<>>]
File == [kind |-> "file", to |-> <<>>]
Link(t) == [kind |-> "link", to |-> t]

Kind(f, p) == IF p = Root THEN "dir" ELSE IF p \in DOMAIN f THEN f[p].kind ELSE "none"

\* The kernel's bound on the symlinks followed in one path resolution
SymloopMax == 40

\* Path resolution from the resolved directory done through the components
\* rest, following every symlink (relative targets from the link's directory).
\* followed holds the symlinks followed so far, each with what was left to
\* resolve after it: a walk that comes to one of them again goes round until
\* the fuel is spent
RECURSIVE Walk(_, _, _, _, _)
Walk(f, done, rest, fuel, followed) ==
    IF rest = <<>> THEN done
    ELSE LET cur == Append(done, Head(rest))
             k == Kind(f, cur)
         IN CASE k = "none" -> ENOENT
              [] k = "file" -> IF Tail(rest) = <<>> THEN cur ELSE ENOENT
              [] k = "dir" -> Walk(f, cur, Tail(rest), fuel, followed)
              [] k = "link" ->
                    IF fuel = 0 \/ <<cur, Tail(rest)>> \in followed THEN ELOOP
                    ELSE IF IsAbs(f[cur].to)
                         THEN Walk(f, Root, Tail(f[cur].to) \o Tail(rest), fuel - 1,
                                   followed \cup {<<cur, Tail(rest)>>})
                         ELSE Walk(f, done, f[cur].to \o Tail(rest), fuel - 1,
                                   followed \cup {<<cur, Tail(rest)>>})

\* Path::canonicalize: relative paths are resolved from the working directory
Canonicalize(f, wd, p) ==
    IF p = <<>> THEN ENOENT
    ELSE IF IsAbs(p) THEN Walk(f, Root, Tail(p), SymloopMax, {})
    ELSE Walk(f, wd, p, SymloopMax, {})

\* Path::exists: follows symlinks
Exists(f, wd, p) == ~IsErr(Canonicalize(f, wd, p))

\* The directory entry a path names: its parent resolved, its last component not
Entry(f, wd, p) ==
    IF p = <<>> \/ p = Root THEN p
    ELSE IF Len(p) = 1 THEN Append(wd, p[1])
    ELSE LET par == Canonicalize(f, wd, Parent(p))
         IN IF IsErr(par) THEN par ELSE Append(par, Last(p))

\* Path::is_symlink (symlink_metadata)
IsSymlink(f, wd, p) ==
    LET e == Entry(f, wd, p) IN ~IsErr(e) /\ Kind(f, e) = "link"

\* Path::read_link of a path that is a symlink
ReadLink(f, wd, p) == f[Entry(f, wd, p)].to

MaxSymlinkDepth == 10

RECURSIVE do_resolve_symlink(_, _, _, _)

\* do_resolve_symlink, from the second `if path.is_symlink()` on
resolve_again(f, wd, path, depth) ==
    IF IsErr(path) THEN path
    ELSE IF IsSymlink(f, wd, path) THEN do_resolve_symlink(f, wd, path, depth + 1)
    ELSE path

\* FsDriver::do_resolve_symlink
do_resolve_symlink(f, wd, path, depth) ==
    IF depth > MaxSymlinkDepth THEN TooManySymlinks
    ELSE resolve_again(f, wd,
                       IF IsSymlink(f, wd, path)
                       THEN Canonicalize(f, wd, ReadLink(f, wd, path))
                       ELSE path,
                       depth)

\* FsDriver::maybe_resolve_symlink
maybe_resolve_symlink(f, wd, path) == do_resolve_symlink(f, wd, path, 0)

\* fully_expand_path, the arm Ok(path) of the inner match: path.canonicalize()
expand_resolved(f, wd, path, canonical_path) ==
    IF IsErr(canonical_path) THEN path ELSE canonical_path

\* fully_expand_path, the arm Ok(path) of the outer match, on the result of
\* maybe_resolve_symlink
expand_canonical(f, wd, resolved) ==
    IF IsErr(resolved) THEN resolved
    ELSE expand_resolved(f, wd, resolved, Canonicalize(f, wd, resolved))

\* fully_expand_path, the match on Path::new(&expanded).canonicalize()
expand_match(f, wd, expanded, canonical) ==
    IF IsErr(canonical) THEN expanded
    ELSE expand_canonical(f, wd, maybe_resolve_symlink(f, wd, canonical))

\* FsDriver::fully_expand_path
fully_expand_path(f, wd, path) ==
    expand_match(f, wd, Tilde(path), Canonicalize(f, wd, Tilde(path)))

\* $PATH, in search order
PathDirs == << <<"/", "bin">>, <<"/", "usr", "bin">> >>

\* which::which: a bare name is searched in $PATH, any other path is taken as
\* it is; <<>> when nothing is found
which(f, wd, p) ==
    LET isExe(q) == LET c == Canonicalize(f, wd, q)
                    IN ~IsErr(c) /\ Kind(f, c) = "file"
    IN IF Len(p) = 1 /\ ~IsAbs(p)
       THEN LET hits == {i \in 1..Len(PathDirs) : isExe(PathDirs[i] \o p)}
            IN IF hits = {} THEN <<>>
               ELSE PathDirs[CHOOSE i \in hits : \A j \in hits : i <= j] \o p
       ELSE IF p # <<>> /\ isExe(p) THEN (IF IsAbs(p) THEN p ELSE wd \o p) ELSE <<>>

-----------------------------------------------------------------------------
(* Rules: results are "yes", "no" or "err" (the Err of a Result<bool>) *)

\* The last comparison of test_program without `is_some() || is_some()`
test_which_none(which_rule_binary, which_user_program) ==
    IF which_rule_binary = which_user_program THEN "yes" ELSE "no"

\* test_program, the last comparison: which(rule_binary) against which(program)
test_which(which_rule_binary, which_user_program) ==
    IF which_rule_binary = which_user_program
       /\ (which_rule_binary # <<>> \/ which_user_program # <<>>)
    THEN "yes" ELSE "no"

\* test_program, inside `if let Ok(expanded_rule_binary)`: both sides resolved
\* as symlinks
test_symlinks(f, wd, program, rule_binary, resolved_rule_binary, resolved_user_program) ==
    IF IsErr(resolved_rule_binary) \/ IsErr(resolved_user_program) THEN "err"
    ELSE IF resolved_rule_binary = resolved_user_program THEN "yes"
    ELSE test_which(which(f, wd, rule_binary), which(f, wd, program))

\* test_program, the else branch: the rule binary cannot be canonicalized
test_unresolved(f, wd, program, rule_binary, resolved_user_program) ==
    IF IsErr(resolved_user_program) THEN "err"
    ELSE IF FileName(resolved_user_program) # <<>>
              /\ FileName(resolved_user_program) = rule_binary THEN "yes"
    ELSE IF FileName(resolved_user_program) = <<>>
              /\ rule_binary = resolved_user_program THEN "yes"
    ELSE test_which(which(f, wd, rule_binary), which(f, wd, program))

\* test_program, from `if let Ok(expanded_rule_binary) = rule_binary.canonicalize()`
test_expanded(f, wd, program, rule_binary, expanded_user_program, expanded_rule_binary) ==
    IF IsErr(expanded_user_program) THEN "err"
    ELSE IF ~IsErr(expanded_rule_binary)
    THEN IF expanded_rule_binary = expanded_user_program THEN "yes"
         ELSE test_symlinks(f, wd, program, rule_binary,
                            maybe_resolve_symlink(f, wd, expanded_rule_binary),
                            maybe_resolve_symlink(f, wd, expanded_user_program))
    ELSE test_unresolved(f, wd, program, rule_binary,
                         maybe_resolve_symlink(f, wd, expanded_user_program))

\* Rule::test_program
test_program(f, wd, program, rule_binary) ==
    IF FileName(rule_binary) # <<>> /\ program = FileName(rule_binary) THEN "yes"
    ELSE IF program = rule_binary THEN "yes"
    ELSE test_expanded(f, wd, program, rule_binary,
                       fully_expand_path(f, wd, program),
                       Canonicalize(f, wd, rule_binary))

RECURSIVE applies_from(_, _, _, _, _)

\* applies_to_binary, the body of the loop on the result of test_program
applies_next(f, wd, only, program, i, tested) ==
    IF tested = "no" THEN applies_from(f, wd, only, program, i + 1) ELSE tested

\* applies_to_binary, the loop over self.only from its i-th entry on
applies_from(f, wd, only, program, i) ==
    IF i > Len(only) THEN "no"
    ELSE applies_next(f, wd, only, program, i, test_program(f, wd, program, only[i]))

\* Rule::applies_to_binary
applies_to_binary(f, wd, rule, program) ==
    IF rule.only = <<>> THEN "yes" ELSE applies_from(f, wd, rule.only, program, 1)

RECURSIVE context_from(_, _, _, _)

\* currently_in_context, the body of the loop from pwd.starts_with on
context_resolved(f, wd, context, i, resolved_context) ==
    IF IsErr(resolved_context) THEN "err"
    ELSE IF StartsWith(wd, resolved_context) THEN "yes"
    ELSE context_from(f, wd, context, i + 1)

\* currently_in_context, the body of the loop after canonicalize()?
context_expanded(f, wd, context, i, expanded_context) ==
    IF IsErr(expanded_context) THEN "err"
    ELSE context_resolved(f, wd, context, i,
                          maybe_resolve_symlink(f, wd, expanded_context))

\* currently_in_context, the loop over self.context from its i-th entry on
context_from(f, wd, context, i) ==
    IF i > Len(context) THEN "no"
    ELSE context_expanded(f, wd, context, i, Canonicalize(f, wd, Tilde(context[i])))

\* Rule::currently_in_context
currently_in_context(f, wd, rule) ==
    IF rule.context = <<>> THEN "yes" ELSE context_from(f, wd, rule.context, 1)

\* The body of the loop of get_all_applicable_rules: how often the rule is
\* pushed given the results in_context of currently_in_context and applies of
\* applies_to_binary, or -1 when a `?` returns an Err
PushTwice(in_context, applies) ==
    IF in_context = "err" \/ applies = "err" THEN -1
    ELSE (IF in_context = "yes" /\ applies = "yes" THEN 1 ELSE 0)
         + (IF applies = "yes" THEN 1 ELSE 0)

PushInContextOnly(in_context, applies) ==
    IF in_context = "err" \/ applies = "err" THEN -1
    ELSE IF in_context = "yes" /\ applies = "yes" THEN 1 ELSE 0

PushOnContextAlone(in_context, applies) ==
    IF in_context = "err" \/ applies = "err" THEN -1
    ELSE IF in_context = "yes" \/ applies = "yes" THEN 1 ELSE 0

Push(in_context, applies) ==
    IF in_context = "err" THEN -1
    ELSE IF applies = "err" THEN -1
    ELSE IF in_context = "yes" /\ applies = "yes" THEN 1
    ELSE IF applies = "yes" THEN 1
    ELSE 0

Pushes(f, wd, rule, program) ==
    Push(currently_in_context(f, wd, rule), applies_to_binary(f, wd, rule, program))

-----------------------------------------------------------------------------
(* Filesystem changes: each returns [ok, fs], the Result and the filesystem *)
(* the call leaves behind                                                  *)

FsOk(f) == [ok |-> TRUE, fs |-> f]
FsErr(f) == [ok |-> FALSE, fs |-> f]

Remove(f, gone) == [q \in DOMAIN f \ gone |-> f[q]]

Under(f, p) == {q \in DOMAIN f : StartsWith(q, p)}

\* mkdir(2): the parent must be a directory and the entry free
mkdir(f, wd, p) ==
    IF Len(p) >= 2 /\ Kind(f, Canonicalize(f, wd, Parent(p))) # "dir" THEN FsErr(f)
    ELSE IF IsErr(Entry(f, wd, p)) \/ Kind(f, Entry(f, wd, p)) # "none" THEN FsErr(f)
    ELSE FsOk(f @@ (Entry(f, wd, p) :> Dir))

RECURSIVE create_dir_all(_, _, _)

\* create_dir_all, once the parent has been dealt with
create_dir_in(made, wd, p) == IF made.ok THEN mkdir(made.fs, wd, p) ELSE made

\* std::fs::create_dir_all
create_dir_all(f, wd, p) ==
    IF p = <<>> \/ p = Root THEN FsOk(f)
    ELSE IF Exists(f, wd, p)
    THEN IF Kind(f, Canonicalize(f, wd, p)) = "dir" THEN FsOk(f) ELSE FsErr(f)
    ELSE create_dir_in(create_dir_all(f, wd, Parent(p)), wd, p)

\* FsDriver::touch_dir
touch_dir(f, wd, p) == create_dir_all(f, wd, p)

\* FsDriver::touch: OpenOptions::new().create(true).write(true).open(path)
touch(f, wd, p) ==
    IF Exists(f, wd, p)
    THEN IF Kind(f, Canonicalize(f, wd, p)) = "file" THEN FsOk(f) ELSE FsErr(f)
    ELSE IF Len(p) >= 2 /\ Kind(f, Canonicalize(f, wd, Parent(p))) # "dir" THEN FsErr(f)
    ELSE IF IsErr(Entry(f, wd, p)) \/ Kind(f, Entry(f, wd, p)) # "none" THEN FsErr(f)
    ELSE FsOk(f @@ (Entry(f, wd, p) :> File))

\* std::fs::remove_file
remove_file(f, wd, p) ==
    IF ~IsErr(Entry(f, wd, p)) /\ Kind(f, Entry(f, wd, p)) \in {"file", "link"}
    THEN FsOk(Remove(f, {Entry(f, wd, p)}))
    ELSE FsErr(f)

\* std::fs::remove_dir: the directory must be empty
remove_dir(f, wd, p) ==
    IF ~IsErr(Entry(f, wd, p)) /\ Kind(f, Entry(f, wd, p)) = "dir"
       /\ Under(f, Entry(f, wd, p)) = {Entry(f, wd, p)}
    THEN FsOk(Remove(f, {Entry(f, wd, p)}))
    ELSE FsErr(f)

\* std::fs::remove_dir_all
remove_dir_all(f, wd, p) ==
    IF Exists(f, wd, p) THEN FsOk(Remove(f, Under(f, p))) ELSE FsErr(f)

\* [ok, fs, created]: an Ok(created) or an Err
Ensured(r, created) == [ok |-> r.ok, fs |-> r.fs, created |-> r.ok /\ created]

\* ensure_file, after the parent has been dealt with
ensure_touch(made, wd, path) ==
    IF made.ok THEN Ensured(touch(made.fs, wd, path), TRUE) ELSE Ensured(made, FALSE)

\* Enclosure::ensure_file
ensure_file(f, wd, path) ==
    IF Exists(f, wd, path) THEN Ensured(FsOk(f), FALSE)
    ELSE ensure_touch(IF Len(path) >= 2 /\ ~Exists(f, wd, Parent(path))
                      THEN touch_dir(f, wd, Parent(path))
                      ELSE FsOk(f),
                      wd, path)

\* Enclosure::ensure_directory
ensure_directory(f, wd, path) ==
    IF Exists(f, wd, path) THEN Ensured(FsOk(f), FALSE)
    ELSE Ensured(touch_dir(f, wd, path), TRUE)

\* The arms of `match rule.mode`
ensure(mode, f, wd, path) ==
    IF mode = "file" THEN ensure_file(f, wd, path) ELSE ensure_directory(f, wd, path)

\* An outcome of the strip that leaves the part as it is
strip_nothing(part) == part

\* append_all, the strip of a leading "/" from a part
strip_root(part) == IF StartsWith(part, Root) THEN Tail(part) ELSE part

\* PathBuf::push: an absolute path replaces the buffer
push(buf, path) == IF IsAbs(path) THEN path ELSE buf \o path

\* fs::append_all
RECURSIVE append_all(_, _)
append_all(buf, parts) ==
    IF parts = <<>> THEN buf
    ELSE append_all(push(buf, strip_root(Head(parts))), Tail(parts))

\* FsDriver::all_containers_root
all_containers_root == <<"/", "tmp", "boxxy-containers">>

\* FsDriver::container_root, of the name the enclosure was given
container_root == append_all(all_containers_root, << <<"n">> >>)

\* FsDriver::setup_root
setup_root(f, wd) == create_dir_all(f, wd, container_root)

\* FsDriver::cleanup_root
cleanup_root(f, wd) == remove_dir_all(f, wd, container_root)

-----------------------------------------------------------------------------
(* Enclosure::set_up_temporary_files *)

\* [ok, fs, files, dirs]: the filesystem and the created_* lists after one rule
SetUp(ok, f, files, dirs) == [ok |-> ok, fs |-> f, files |-> files, dirs |-> dirs]

\* An outcome of the arm that pushes the target whether or not it was created
set_up_target_always(rule, files, dirs, target_path, made) ==
    SetUp(made.ok, made.fs,
          IF rule.mode = "file" THEN Append(files, target_path) ELSE files,
          IF rule.mode # "file" THEN Append(dirs, target_path) ELSE dirs)

\* the second ensure_* of the arm, on the target, and the push
set_up_target(rule, files, dirs, target_path, made) ==
    SetUp(made.ok, made.fs,
          IF made.created /\ rule.mode = "file" THEN Append(files, target_path) ELSE files,
          IF made.created /\ rule.mode # "file" THEN Append(dirs, target_path) ELSE dirs)

\* An outcome of the arm that pushes the rewrite it has created
set_up_rewrite_recorded(wd, rule, files, dirs, target_path, made) ==
    IF ~made.ok THEN SetUp(FALSE, made.fs, files, dirs)
    ELSE set_up_target(rule,
            IF made.created /\ rule.mode = "file"
            THEN Append(files, rule.rewrite) ELSE files,
            IF made.created /\ rule.mode # "file"
            THEN Append(dirs, rule.rewrite) ELSE dirs,
            target_path, ensure(rule.mode, made.fs, wd, target_path))

\* the first ensure_* of the arm, on the rewrite
set_up_rewrite(wd, rule, files, dirs, target_path, made) ==
    IF ~made.ok THEN SetUp(FALSE, made.fs, files, dirs)
    ELSE set_up_target(rule, files, dirs, target_path,
                       ensure(rule.mode, made.fs, wd, target_path))

\* the body of the loop after the three paths have been computed
set_up_paths(f, wd, rule, files, dirs, target_path, rewrite_path) ==
    IF IsErr(target_path) \/ IsErr(rewrite_path) THEN SetUp(FALSE, f, files, dirs)
    ELSE set_up_rewrite(wd, rule, files, dirs, target_path,
                        ensure(rule.mode, f, wd, rewrite_path))

\* set_up_temporary_files, the body of the loop
set_up_rule(f, wd, rule, files, dirs) ==
    set_up_paths(f, wd, rule, files, dirs,
                 maybe_resolve_symlink(f, wd, fully_expand_path(f, wd, rule.target)),
                 fully_expand_path(f, wd, rule.rewrite))

\* set_up_temporary_files, the loop from its i-th rule on: `?` ends it
RECURSIVE set_up_from(_, _, _, _)
set_up_from(i, rs, wd, acc) ==
    IF i > Len(rs) \/ ~acc.ok THEN acc
    ELSE set_up_from(i + 1, rs, wd, set_up_rule(acc.fs, wd, rs[i], acc.files, acc.dirs))

\* set_up_temporary_files(applicable_rules), on an Enclosure whose lists are
\* files and dirs
set_up_temporary_files(f, wd, rs, files, dirs) ==
    set_up_from(1, rs, wd, SetUp(TRUE, f, files, dirs))

-----------------------------------------------------------------------------
(* The child's mount namespace *)

Mount(src, target) == [src |-> src, target |-> target, ro |-> FALSE]

\* The mount a mount point names: the newest of the mounts stacked on it
Top(ms, target) ==
    CHOOSE i \in 0..Len(ms) :
        /\ i # 0 => ms[i].target = target
        /\ \A j \in 1..Len(ms) : ms[j].target = target => (i # 0 /\ j <= i)

\* An outcome of remount_ro that leaves every mount read-only
remount_ro_all(ms, target) == [i \in 1..Len(ms) |-> [ms[i] EXCEPT !.ro = TRUE]]

\* remount_ro: mount(MS_REMOUNT | MS_BIND | MS_RDONLY) changes the flags of the
\* one mount the target names and of no other
remount_ro(ms, target) ==
    [i \in 1..Len(ms) |-> IF i = Top(ms, target) THEN [ms[i] EXCEPT !.ro = TRUE]
                           ELSE ms[i]]

\* The mounts a path of the child's namespace lies under
Over(ms, p) == {i \in 1..Len(ms) : StartsWith(p, ms[i].target)}

\* The path of the parent's namespace a path of the child's namespace names:
\* the newest mount at or above it decides
Real(ms, p) ==
    IF Over(ms, p) = {} THEN p
    ELSE LET i == CHOOSE i \in Over(ms, p) : \A j \in Over(ms, p) : j <= i
         IN ms[i].src \o SubSeq(p, Len(ms[i].target) + 1, Len(p))

\* The paths of the child's namespace that may name something
ViewPaths(f, ms) ==
    DOMAIN f \cup UNION {{ms[i].target \o SubSeq(q, Len(ms[i].src) + 1, Len(q)) :
                             q \in {x \in DOMAIN f \cup {Root} : StartsWith(x, ms[i].src)}} :
                         i \in 1..Len(ms)}

\* The filesystem as the child's mount namespace shows it
View(f, ms) ==
    [p \in {q \in ViewPaths(f, ms) : Real(ms, q) \in DOMAIN f \cup {Root}} |->
        IF Real(ms, p) = Root THEN Dir ELSE f[Real(ms, p)]]

\* The filesystem after the child has created, through its view, the entries
\* that after has and before has not
Through(f, ms, before, after) ==
    f @@ [q \in {Real(ms, p) : p \in DOMAIN after \ DOMAIN before} |->
             after[CHOOSE p \in DOMAIN after \ DOMAIN before : Real(ms, p) = q]]

-----------------------------------------------------------------------------
(* Enclosure::set_up_container, the loop that applies the rules *)

\* [ok, view, mounts, files]
Applied(ok, v, ms, files) == [ok |-> ok, view |-> v, mounts |-> ms, files |-> files]

\* An outcome of the mount that puts the new mount under the older ones
apply_mount_under(v, wd, ms, files, target_path, rewrite_path) ==
    IF Exists(v, wd, rewrite_path) /\ Exists(v, wd, target_path)
       /\ Kind(v, Canonicalize(v, wd, rewrite_path))
          = Kind(v, Canonicalize(v, wd, target_path))
    THEN Applied(TRUE, v, <<Mount(rewrite_path, target_path)>> \o ms, files)
    ELSE Applied(FALSE, v, ms, files)

\* bind_mount_rw(&rewrite_path, &target_path): mount(2) wants both ends to
\* exist and to be of one kind
apply_mount(v, wd, ms, files, target_path, rewrite_path) ==
    IF Exists(v, wd, rewrite_path) /\ Exists(v, wd, target_path)
       /\ Kind(v, Canonicalize(v, wd, rewrite_path))
          = Kind(v, Canonicalize(v, wd, target_path))
    THEN Applied(TRUE, v, Append(ms, Mount(rewrite_path, target_path)), files)
    ELSE Applied(FALSE, v, ms, files)

\* `if !target_path.exists()`: created and pushed (to created_files in both arms)
apply_created(wd, ms, files, target_path, rewrite_path, made) ==
    IF ~made.ok THEN Applied(FALSE, made.fs, ms, files)
    ELSE apply_mount(made.fs, wd, ms, Append(files, target_path), target_path,
                     rewrite_path)

\* the body of the loop after the paths have been computed
apply_paths(v, wd, rule, ms, files, target_path, rewrite_path) ==
    IF IsErr(target_path) \/ IsErr(rewrite_path) THEN Applied(FALSE, v, ms, files)
    ELSE IF Exists(v, wd, target_path)
    THEN apply_mount(v, wd, ms, files, target_path, rewrite_path)
    ELSE apply_created(wd, ms, files, target_path, rewrite_path,
                       ensure(rule.mode, v, wd, target_path))

\* `match append_all(&container_root, vec![&expanded_target]).canonicalize()`
apply_canonical(joined, canonical) == IF IsErr(canonical) THEN joined ELSE canonical

\* the target path inside the container, from the expanded target
apply_target(v, wd, expanded_target) ==
    IF IsErr(expanded_target) THEN expanded_target
    ELSE maybe_resolve_symlink(v, wd,
            apply_canonical(append_all(container_root, <<expanded_target>>),
                            Canonicalize(v, wd,
                                append_all(container_root, <<expanded_target>>))))

\* set_up_container, the body of the loop over applicable_rules, on the view v
\* of the child's mount namespace
apply_rule(v, wd, rule, ms, files) ==
    apply_paths(v, wd, rule, ms, files,
                apply_target(v, wd, fully_expand_path(v, wd, rule.target)),
                fully_expand_path(v, wd, rule.rewrite))

-----------------------------------------------------------------------------
(* Wait statuses *)

\* A working directory: a path and the root it is resolved from
Dir_in(root, path) == [root |-> root, path |-> path]

NoStatus == [kind |-> "none", code |-> 0]
Exited(c) == [kind |-> "exited", code |-> c]
Signaled == [kind |-> "signaled", code |-> 0]

\* std::process::exit(code): the exit status the kernel reports
ExitCode(code) == code % 256

-----------------------------------------------------------------------------
(* The inputs of the rule engine *)

P(a, b) == <<"/", a, b>>
P3(a, b, c) == <<"/", a, b, c>>

BaseFs ==
    (<<"/", "usr">> :> Dir) @@ (P("usr", "bin") :> Dir)
    @@ (P3("usr", "bin", "ls") :> File) @@ (P3("usr", "bin", "cat") :> File)
    @@ (P3("usr", "bin", "l") :> Link(P3("usr", "bin", "ls")))
    @@ (<<"/", "bin">> :> Link(P("usr", "bin")))
    @@ (<<"/", "tmp">> :> Dir) @@ (P("tmp", "yes") :> Dir)
    @@ (P3("tmp", "yes", "sub") :> Dir) @@ (P("tmp", "no") :> Dir)
    @@ (P("tmp", "ln") :> Link(P("tmp", "yes")))
    @@ (<<"/", "home">> :> Dir) @@ (P("home", "w") :> Dir)

CtxChoices ==
    { <<>>,
      << P("tmp", "yes") >>,
      << P("tmp", "no"), P("tmp", "ln") >>,
      << <<"~", "w">> >>,
      << P("tmp", "gone"), P("tmp", "yes") >> }

OnlyChoices ==
    { <<>>,
      << <<"ls">> >>,
      << P3("usr", "bin", "cat"), P("bin", "ls") >>,
      << <<"nope">> >> }

Programs == { <<"ls">>, P3("usr", "bin", "ls"), <<"cat">>, <<"l">> }

Cwds == { P3("tmp", "yes", "sub"), P("tmp", "no") }

MatchRule(ctx, only) ==
    [name |-> "m", target |-> P("t", "a"), rewrite |-> P("r", "a"), mode |-> "directory",
     context |-> ctx, only |-> only]

MatchRules == {MatchRule(c, o) : c \in CtxChoices, o \in OnlyChoices}

SeqsUpTo(S, n) == UNION {[1..k -> S] : k \in 0..n}

-----------------------------------------------------------------------------
(* Enclosure::run, first call: BoxxyRules::get_all_applicable_rules *)

Repeat(x, n) == [i \in 1..n |-> x]

\* An Err that `?` carries out of Enclosure::run and out of main
FailRun ==
    /\ ppc' = "exited"
    /\ pcode' = 1
    /\ pexitBy' = "error"

\* One iteration of the loop over self.rules
RuleIter ==
    /\ ppc = "filter"
    /\ rIdx <= Len(rules)
    /\ \E n \in {Pushes(fs, cwd, rules[rIdx], prog)} :
          IF n < 0
          THEN /\ FailRun
               /\ UNCHANGED <<ruleVars, created_files, created_directories,
                              exit_status, child_exit_status, kIdx>>
          ELSE /\ applicable' = applicable \o Repeat(rules[rIdx], n)
               /\ picked' = picked \o Repeat(rIdx, n)
               /\ rIdx' = rIdx + 1
               /\ UNCHANGED <<tIdx, parentVars>>
    /\ UNCHANGED <<libVars, cfgVars, reportVars, childVars, fs, hpc, hist>>

\* The loop is over: Ok(applicable_rules)
RuleDone ==
    /\ ppc = "filter"
    /\ rIdx > Len(rules)
    /\ ppc' = "tmpfiles"
    /\ UNCHANGED <<created_files, created_directories, exit_status,
                   child_exit_status, kIdx, pcode, pexitBy>>
    /\ UNCHANGED <<libVars, cfgVars, reportVars, ruleVars, childVars, fs, hpc, hist>>

NoHist == [stopSeen |-> FALSE, uids |-> FALSE, gids |-> FALSE, released |-> FALSE,
           calls |-> <<>>, tracerEnd |-> "none"]

\* Ok(..): the main thread goes on
Goto(next) ==
    /\ ppc' = next
    /\ UNCHANGED <<pcode, pexitBy>>

-----------------------------------------------------------------------------
(* Enclosure::run, the parent's main thread *)

\* set_up_temporary_files, one iteration of the loop over applicable_rules
TmpIter ==
    /\ ppc = "tmpfiles"
    /\ tIdx <= Len(applicable)
    /\ \E r \in {set_up_rule(fs, cwd, applicable[tIdx], created_files,
                             created_directories)} :
          /\ fs' = r.fs
          /\ IF r.ok
             THEN /\ created_files' = r.files
                  /\ created_directories' = r.dirs
                  /\ tIdx' = tIdx + 1
                  /\ Goto("tmpfiles")
             ELSE /\ FailRun
                  /\ UNCHANGED <<created_files, created_directories, tIdx>>
    /\ UNCHANGED <<rIdx, applicable, picked, exit_status, child_exit_status, kIdx>>
    /\ UNCHANGED <<libVars, cfgVars, reportVars, childVars, hpc, hist>>

TmpDone ==
    /\ ppc = "tmpfiles"
    /\ tIdx > Len(applicable)
    /\ Goto("clone")
    /\ UNCHANGED <<created_files, created_directories, exit_status,
                   child_exit_status, kIdx>>
    /\ UNCHANGED <<libVars, cfgVars, reportVars, ruleVars, childVars, fs, hpc, hist>>

\* An outcome of the callback that stops itself before anything else
StopsFirst == "traceme"

\* The callback: run_in_container begins with set_up_container, whose first
\* step on the filesystem is setup_root
run_in_container == "setup_root"

\* clone(callback, stack, CLONE_NEWNS | CLONE_NEWUSER, SIGCHLD)?
Clone ==
    /\ ppc = "clone"
    /\ \E ok \in BOOLEAN :
          IF ok
          THEN /\ Goto("wait_stop")
               /\ cproc' = "running"
               /\ cpc' = run_in_container
               /\ child_created_files' = created_files
               /\ cdir' = Dir_in("host", cwd)
               /\ UNCHANGED <<cstatus, cterm, cIdx, mounts, croot>>
          ELSE /\ FailRun
               /\ UNCHANGED childVars
    /\ UNCHANGED <<created_files, created_directories, exit_status,
                   child_exit_status, kIdx>>
    /\ UNCHANGED <<libVars, cfgVars, reportVars, ruleVars, fs, hpc, hist>>

\* waitpid(pid, Some(WaitPidFlag::WSTOPPED))?: returns for a stopped child and
\* for a terminated one, which it reaps
WaitStop ==
    /\ ppc = "wait_stop"
    /\ cproc \in {"stopped", "zombie"}
    /\ cproc' = IF cproc = "zombie" THEN "reaped" ELSE cproc
    /\ hist' = [hist EXCEPT !.stopSeen = (cproc = "stopped")]
    /\ Goto("map_uids")
    /\ UNCHANGED <<created_files, created_directories, exit_status,
                   child_exit_status, kIdx>>
    /\ UNCHANGED <<cpc, cstatus, cterm, cIdx, mounts, croot, cdir, child_created_files>>
    /\ UNCHANGED <<libVars, cfgVars, reportVars, ruleVars, fs, hpc>>

\* User::from_uid(uid)? and linux::map_uids(pid, &mut uid_map)?
MapUids ==
    /\ ppc = "map_uids"
    /\ \E ok \in BOOLEAN :
          IF ok
          THEN /\ Goto("map_gids")
               /\ hist' = [hist EXCEPT !.uids = TRUE]
          ELSE /\ FailRun
               /\ UNCHANGED hist
    /\ UNCHANGED <<created_files, created_directories, exit_status,
                   child_exit_status, kIdx>>
    /\ UNCHANGED <<libVars, cfgVars, reportVars, ruleVars, childVars, fs, hpc>>

\* getgrouplist(..)? and linux::map_gids(pid, &mut gid_map)?
MapGids ==
    /\ ppc = "map_gids"
    /\ \E ok \in BOOLEAN :
          IF ok
          THEN /\ Goto("set_handler")
               /\ hist' = [hist EXCEPT !.gids = TRUE]
          ELSE /\ FailRun
               /\ UNCHANGED hist
    /\ UNCHANGED <<created_files, created_directories, exit_status,
                   child_exit_status, kIdx>>
    /\ UNCHANGED <<libVars, cfgVars, reportVars, ruleVars, childVars, fs, hpc>>

\* ctrlc::set_handler(..)?, then the branch on self.config.trace
SetHandler ==
    /\ ppc = "set_handler"
    /\ \E ok \in BOOLEAN :
          IF ok
          THEN /\ Goto(IF trace THEN "flag" ELSE "detach")
               /\ hpc' = "idle"
          ELSE /\ FailRun
               /\ UNCHANGED hpc
    /\ UNCHANGED <<created_files, created_directories, exit_status,
                   child_exit_status, kIdx>>
    /\ UNCHANGED <<libVars, cfgVars, reportVars, ruleVars, childVars, fs, hist>>

\* ptrace::detach(pid, None)?: the stopped child runs again, and a SIGTERM
\* that was pending for it ends it; ESRCH when the child is gone
Detach ==
    /\ ppc = "detach"
    /\ IF cproc = "stopped"
       THEN /\ Goto("wait_loop")
            /\ cproc' = IF cterm THEN "zombie" ELSE "running"
            /\ cstatus' = IF cterm THEN Signaled ELSE cstatus
            /\ cpc' = IF cterm THEN "killed" ELSE cpc
            /\ cterm' = FALSE
            /\ hist' = [hist EXCEPT !.released = TRUE]
       ELSE /\ FailRun
            /\ UNCHANGED <<cproc, cstatus, cpc, cterm, hist>>
    /\ UNCHANGED <<created_files, created_directories, exit_status,
                   child_exit_status, kIdx>>
    /\ UNCHANGED <<cIdx, mounts, croot, cdir, child_created_files>>
    /\ UNCHANGED <<libVars, cfgVars, reportVars, ruleVars, fs, hpc>>

\* run_without_tracing, one waitpid(pid, None) of a loop that any result ends
WaitLoopBreaks ==
    /\ ppc = "wait_loop"
    /\ cproc \in {"zombie", "reaped"}
    /\ exit_status' = IF cproc = "zombie" /\ cstatus.kind = "exited"
                      THEN cstatus.code ELSE exit_status
    /\ child_exit_status' = exit_status'
    /\ cproc' = "reaped"
    /\ Goto("cleanup_root")
    /\ UNCHANGED <<created_files, created_directories, kIdx>>
    /\ UNCHANGED <<cpc, cstatus, cterm, cIdx, mounts, croot, cdir, child_created_files>>
    /\ UNCHANGED <<libVars, cfgVars, reportVars, ruleVars, fs, hpc, hist>>

\* run_without_tracing, one waitpid(pid, None) of the loop
WaitLoop ==
    /\ ppc = "wait_loop"
    /\ cproc \in {"zombie", "reaped"}
    /\ IF cproc = "zombie" /\ cstatus.kind = "exited"
       THEN \* Ok(WaitStatus::Exited(_pid, status)): break
            /\ exit_status' = cstatus.code
            /\ child_exit_status' = cstatus.code
            /\ cproc' = "reaped"
            /\ Goto("cleanup_root")
       ELSE IF cproc = "reaped"
       THEN \* Err(Errno::ECHILD): sleep, break
            /\ child_exit_status' = exit_status
            /\ Goto("cleanup_root")
            /\ UNCHANGED <<exit_status, cproc>>
       ELSE \* any other result: sleep, loop
            /\ cproc' = "reaped"
            /\ Goto("wait_loop")
            /\ UNCHANGED <<exit_status, child_exit_status>>
    /\ UNCHANGED <<created_files, created_directories, kIdx>>
    /\ UNCHANGED <<cpc, cstatus, cterm, cIdx, mounts, croot, cdir, child_created_files>>
    /\ UNCHANGED <<libVars, cfgVars, reportVars, ruleVars, fs, hpc, hist>>

\* self.fs.cleanup_root(&self.name)?
CleanupRoot ==
    /\ ppc = "cleanup_root"
    /\ \E r \in {cleanup_root(fs, cwd)} :
          /\ fs' = r.fs
          /\ IF r.ok THEN Goto("clean_up") ELSE FailRun
    /\ UNCHANGED <<created_files, created_directories, exit_status,
                   child_exit_status, kIdx>>
    /\ UNCHANGED <<libVars, cfgVars, reportVars, ruleVars, childVars, hpc, hist>>

\* clean_up_container: the removal the two loops are at, after done removals
clean_up_step(f, wd, files, dirs, done) ==
    IF done < Len(files) THEN remove_file(f, wd, files[done + 1])
    ELSE remove_dir(f, wd, dirs[done - Len(files) + 1])

\* clean_up_container, one iteration of one of its loops
CleanUp ==
    /\ ppc = "clean_up"
    /\ kIdx < Len(created_files) + Len(created_directories)
    /\ \E r \in {clean_up_step(fs, cwd, created_files, created_directories, kIdx)} :
          /\ fs' = r.fs
          /\ IF r.ok
             THEN /\ kIdx' = kIdx + 1
                  /\ Goto("clean_up")
             ELSE /\ FailRun
                  /\ UNCHANGED kIdx
    /\ UNCHANGED <<created_files, created_directories, exit_status, child_exit_status>>
    /\ UNCHANGED <<libVars, cfgVars, reportVars, ruleVars, childVars, hpc, hist>>

CleanUpDone ==
    /\ ppc = "clean_up"
    /\ kIdx >= Len(created_files) + Len(created_directories)
    /\ Goto("exit")
    /\ UNCHANGED <<created_files, created_directories, exit_status,
                   child_exit_status, kIdx>>
    /\ UNCHANGED <<libVars, cfgVars, reportVars, ruleVars, childVars, fs, hpc, hist>>

\* exit(self.child_exit_status)
Exit ==
    /\ ppc = "exit"
    /\ ppc' = "exited"
    /\ pcode' = ExitCode(child_exit_status)
    /\ pexitBy' = "main"
    /\ UNCHANGED <<created_files, created_directories, exit_status,
                   child_exit_status, kIdx>>
    /\ UNCHANGED <<libVars, cfgVars, reportVars, ruleVars, childVars, fs, hpc, hist>>

-----------------------------------------------------------------------------
(* Enclosure::run_with_tracing; Tracer::run is taken as a whole here *)

\* Tracer::flag(pid)?: ptrace::setoptions on the stopped child
Flag ==
    /\ ppc = "flag"
    /\ IF cproc = "stopped" THEN Goto("resume") ELSE FailRun
    /\ UNCHANGED <<created_files, created_directories, exit_status,
                   child_exit_status, kIdx>>
    /\ UNCHANGED <<libVars, cfgVars, reportVars, ruleVars, childVars, fs, hpc, hist>>

\* ptrace::syscall(pid, None)?: the stopped child runs again, traced; a
\* signal sent to it from now on stops it for the tracer
Resume ==
    /\ ppc = "resume"
    /\ IF cproc = "stopped"
       THEN /\ Goto("tracer")
            /\ cproc' = "running"
            /\ cterm' = FALSE
            /\ hist' = [hist EXCEPT !.released = TRUE]
       ELSE /\ FailRun
            /\ UNCHANGED <<cproc, cterm, hist>>
    /\ UNCHANGED <<created_files, created_directories, exit_status,
                   child_exit_status, kIdx>>
    /\ UNCHANGED <<cpc, cstatus, cIdx, mounts, croot, cdir, child_created_files>>
    /\ UNCHANGED <<libVars, cfgVars, reportVars, ruleVars, fs, hpc>>

\* A Syscall event, by its path; NoPath has path: None
Syscall(path) == [some |-> TRUE, path |-> path]
NoPath == [some |-> FALSE, path |-> <<>>]

InRoot(rel) == Syscall(container_root \o rel)

\* What the tracer may have sent by the time it ends, in a run
TraceChoices ==
    { <<>>,
      <<InRoot(<<"a">>), NoPath, Syscall(<<"/", "etc">>), InRoot(<<"a">>)>> }

\* Tracer::wait_on_child: how the loop can come to drop the root child.  A
\* root that is exiting stops at PTRACE_EVENT_EXIT, unless the kernel skips
\* that stop and lets waitpid report Exited; a root that gets a signal stops
\* for it, and the tracer drops it then and there
TracerWays(proc, status) ==
    {"error"}
        \cup (IF proc = "zombie" /\ status.kind = "exited"
              THEN {"exited", "event_exit"} ELSE {"signal_stop"})

\* Tracer::new(pid).run(tx)?: it ends when it has dropped the root child.
\* WaitStatus::Exited: the tracer has reaped the root, and remove_child's
\* ptrace::detach(pid, None)? fails on it
TracerRun ==
    /\ ppc = "tracer"
    /\ cproc \in {"running", "zombie"}
    /\ \E way \in TracerWays(cproc, cstatus), sent \in TraceChoices :
          /\ hist' = [hist EXCEPT !.tracerEnd = way]
          /\ cproc' = IF way = "exited" THEN "reaped" ELSE cproc
          /\ IF way \in {"event_exit", "signal_stop"}
             THEN /\ Goto("trace_wait")
                  /\ chan' = sent
             ELSE /\ FailRun
                  /\ UNCHANGED chan
    /\ UNCHANGED <<created_files, created_directories, exit_status,
                   child_exit_status, kIdx>>
    /\ UNCHANGED <<cpc, cstatus, cterm, cIdx, mounts, croot, cdir, child_created_files>>
    /\ UNCHANGED <<libVars, cfgVars, ruleVars, fs, hpc, rxIdx, buffer, seen_paths, counter>>

\* match waitpid(pid, None)?: anything but Exited is unreachable!(), a panic
TraceWait ==
    /\ ppc = "trace_wait"
    /\ cproc = "zombie"
    /\ cproc' = "reaped"
    /\ IF cstatus.kind = "exited"
       THEN /\ child_exit_status' = cstatus.code
            /\ Goto("report")
       ELSE /\ ppc' = "exited"
            /\ pcode' = 101
            /\ pexitBy' = "panic"
            /\ UNCHANGED child_exit_status
    /\ UNCHANGED <<created_files, created_directories, exit_status, kIdx>>
    /\ UNCHANGED <<cpc, cstatus, cterm, cIdx, mounts, croot, cdir, child_created_files>>
    /\ UNCHANGED <<libVars, cfgVars, reportVars, ruleVars, fs, hpc, hist>>

\* [buffer, seen_paths, counter] after an iteration of the recv loop
Reported(buf, seen, n) == [buffer |-> buf, seen_paths |-> seen, counter |-> n]

\* writeln!(buffer, "/{}", path.strip_prefix(&container_root)?.display())
report_line(path, root) == <<"/">> \o SubSeq(path, Len(root) + 1, Len(path))

\* writeln!(buffer, "# total: {counter}")
report_total(n) == <<"# total: ", n>>

\* the body of `while let Ok(syscall) = rx.recv()`
report_recv_again(buf, seen, n, syscall, root) ==
    IF syscall.some /\ StartsWith(syscall.path, root)
    THEN Reported(Append(buf, report_line(syscall.path, root)),
                  seen \cup {syscall.path}, n + 1)
    ELSE Reported(buf, seen, n)

report_recv(buf, seen, n, syscall, root) ==
    IF syscall.some /\ StartsWith(syscall.path, root) /\ syscall.path \notin seen
    THEN Reported(Append(buf, report_line(syscall.path, root)),
                  seen \cup {syscall.path}, n + 1)
    ELSE Reported(buf, seen, n)

\* One event received from the channel
ReportRecv ==
    /\ ppc = "report"
    /\ rxIdx <= Len(chan)
    /\ \E r \in {report_recv(buffer, seen_paths, counter, chan[rxIdx], container_root)} :
          /\ buffer' = r.buffer
          /\ seen_paths' = r.seen_paths
          /\ counter' = r.counter
    /\ rxIdx' = rxIdx + 1
    /\ UNCHANGED <<libVars, cfgVars, ruleVars, parentVars, childVars, fs, hpc, hist, chan>>

ReportPath == Append(cwd, "boxxy-report.txt")

\* The channel is drained and closed: the total line, then
\* File::create("./boxxy-report.txt")? and write_all(..)?
Report ==
    /\ ppc = "report"
    /\ rxIdx > Len(chan)
    /\ buffer' = Append(buffer, report_total(counter))
    /\ \E ok \in BOOLEAN :
          IF ok
          THEN /\ Goto("exit")
               /\ fs' = (ReportPath :> File) @@ fs
          ELSE /\ FailRun
               /\ UNCHANGED fs
    /\ UNCHANGED <<created_files, created_directories, exit_status,
                   child_exit_status, kIdx>>
    /\ UNCHANGED <<libVars, cfgVars, ruleVars, childVars, hpc, hist>>
    /\ UNCHANGED <<chan, rxIdx, seen_paths, counter>>

-----------------------------------------------------------------------------
(* The closure given to ctrlc::set_handler, run by ctrlc's own thread *)

\* ^C: the handler thread wakes up
Sigint ==
    /\ hpc = "idle"
    /\ ppc # "exited"
    /\ hpc' = "kill"
    /\ UNCHANGED <<libVars, cfgVars, reportVars, ruleVars, parentVars, childVars, fs, hist>>

\* The order of the calls of the closure
HandlerSkipsCleanup(at) == "exit"

HandlerThen(at) == IF at = "kill" THEN "cleanup_root" ELSE "exit"

\* What the closure removes
handler_removes_all(f, wd, files, dirs) ==
    Remove(f, Under(f, container_root) \cup {files[i] : i \in 1..Len(files)}
                                       \cup {dirs[i] : i \in 1..Len(dirs)})

handler_removes(f, wd, files, dirs) == cleanup_root(f, wd).fs

\* kill(pid, SIGTERM), its result dropped.  A child stopped under ptrace keeps
\* the signal pending, a running child that is not traced dies of it
HandlerKill ==
    /\ hpc = "kill"
    /\ ppc # "exited"
    /\ hpc' = HandlerThen("kill")
    /\ hist' = [hist EXCEPT !.calls = Append(@, "kill")]
    /\ cterm' = (cterm \/ cproc = "stopped")
    /\ IF cproc = "running" /\ ~trace
       THEN /\ cproc' = "zombie"
            /\ cstatus' = Signaled
            /\ cpc' = "killed"
       ELSE UNCHANGED <<cproc, cstatus, cpc>>
    /\ UNCHANGED <<cIdx, mounts, croot, cdir, child_created_files>>
    /\ UNCHANGED <<libVars, cfgVars, reportVars, ruleVars, parentVars, fs>>

\* FsDriver::new().cleanup_root(&name_clone), its result dropped
HandlerCleanup ==
    /\ hpc = "cleanup_root"
    /\ ppc # "exited"
    /\ hpc' = HandlerThen("cleanup_root")
    /\ hist' = [hist EXCEPT !.calls = Append(@, "cleanup_root")]
    /\ fs' = handler_removes(fs, cwd, created_files, created_directories)
    /\ UNCHANGED <<libVars, cfgVars, reportVars, ruleVars, parentVars, childVars>>

\* exit(1)
HandlerExit ==
    /\ hpc = "exit"
    /\ ppc # "exited"
    /\ hpc' = "done"
    /\ ppc' = "exited"
    /\ pcode' = 1
    /\ pexitBy' = "handler"
    /\ UNCHANGED <<created_files, created_directories, exit_status,
                   child_exit_status, kIdx>>
    /\ UNCHANGED <<libVars, cfgVars, reportVars, ruleVars, childVars, fs, hist>>

-----------------------------------------------------------------------------
(* Enclosure::run_in_container, the cloned child *)

\* An outcome of a failed step in which the callback goes on to the spawn
CarriesOn ==
    /\ cproc' = cproc
    /\ cpc' = "parked"
    /\ cstatus' = cstatus

\* The closure is run_in_container(..).unwrap(): an Err is a panic in the
\* clone callback, which aborts the child or unwinds into its exit
Panics ==
    /\ cproc' = "zombie"
    /\ cpc' = "dead"
    /\ cstatus' \in {Signaled, Exited(101)}

\* A step before the stop fails in the kernel: mount, chroot, pivot_root,
\* umount2, chdir or ptrace::traceme
ChildFails ==
    /\ cproc = "running"
    /\ cpc \in {"setup_root", "mount_root", "rules", "chdir", "remount", "traceme"}
    /\ Panics
    /\ UNCHANGED <<cterm, cIdx, mounts, croot, cdir, child_created_files>>
    /\ UNCHANGED <<libVars, cfgVars, reportVars, ruleVars, parentVars, fs, hpc, hist>>

\* set_up_container: self.fs.setup_root(&self.name)?
ChildSetupRoot ==
    /\ cproc = "running"
    /\ cpc = "setup_root"
    /\ \E r \in {setup_root(fs, cwd)} :
          /\ fs' = r.fs
          /\ IF r.ok
             THEN /\ cpc' = "mount_root"
                  /\ UNCHANGED <<cproc, cstatus>>
             ELSE Panics
    /\ UNCHANGED <<cterm, cIdx, mounts, croot, cdir, child_created_files>>
    /\ UNCHANGED <<libVars, cfgVars, reportVars, ruleVars, parentVars, hpc, hist>>

\* set_up_container: self.fs.bind_mount_rw(Path::new("/"), &container_root)?
ChildMountRoot ==
    /\ cproc = "running"
    /\ cpc = "mount_root"
    /\ mounts' = Append(mounts, Mount(Root, container_root))
    /\ cpc' = "rules"
    /\ cIdx' = 1
    /\ UNCHANGED <<cproc, cstatus, cterm, croot, cdir, child_created_files>>
    /\ UNCHANGED <<libVars, cfgVars, reportVars, ruleVars, parentVars, fs, hpc, hist>>

\* set_up_container, one iteration of the loop that applies the rules
ChildRule ==
    /\ cproc = "running"
    /\ cpc = "rules"
    /\ cIdx <= Len(applicable)
    /\ \E r \in {apply_rule(View(fs, mounts), cwd, applicable[cIdx], mounts,
                            child_created_files)} :
          /\ fs' = Through(fs, mounts, View(fs, mounts), r.view)
          /\ IF r.ok
             THEN /\ mounts' = r.mounts
                  /\ child_created_files' = r.files
                  /\ cIdx' = cIdx + 1
                  /\ UNCHANGED <<cproc, cpc, cstatus>>
             ELSE /\ Panics
                  /\ UNCHANGED <<mounts, child_created_files, cIdx>>
    /\ UNCHANGED <<cterm, croot, cdir>>
    /\ UNCHANGED <<libVars, cfgVars, reportVars, ruleVars, parentVars, hpc, hist>>

\* run_in_container: chroot, or chdir + pivot_root + umount2
ChildEnterRoot ==
    /\ cproc = "running"
    /\ cpc = "rules"
    /\ cIdx > Len(applicable)
    /\ croot' = IF trace THEN "chroot" ELSE "pivot_root"
    /\ cdir' = IF trace THEN cdir ELSE Dir_in("container", Root)
    /\ cpc' = "chdir"
    /\ UNCHANGED <<cproc, cstatus, cterm, cIdx, mounts, child_created_files>>
    /\ UNCHANGED <<libVars, cfgVars, reportVars, ruleVars, parentVars, fs, hpc, hist>>

\* run_in_container: chdir(&pwd)?, a path of the mirror
ChildChdir ==
    /\ cproc = "running"
    /\ cpc = "chdir"
    /\ cdir' = Dir_in("container", cwd)
    /\ cpc' = "remount"
    /\ UNCHANGED <<cproc, cstatus, cterm, cIdx, mounts, croot, child_created_files>>
    /\ UNCHANGED <<libVars, cfgVars, reportVars, ruleVars, parentVars, fs, hpc, hist>>

\* run_in_container: `if self.config.immutable_root { remount_ro("/") }`, where
\* "/" is by now the container root
ChildRemount ==
    /\ cproc = "running"
    /\ cpc = "remount"
    /\ mounts' = IF immutable_root
                 THEN remount_ro(mounts, append_all(container_root, <<Root>>))
                 ELSE mounts
    /\ cpc' = "traceme"
    /\ UNCHANGED <<cproc, cstatus, cterm, cIdx, croot, cdir, child_created_files>>
    /\ UNCHANGED <<libVars, cfgVars, reportVars, ruleVars, parentVars, fs, hpc, hist>>

\* signal::kill(getpid(), signal::SIGSTOP)?: what becomes of the running child
KeepsRunning(proc) == proc

StopsItself(proc) == "stopped"

\* ptrace::traceme()?; signal::kill(getpid(), signal::SIGSTOP)?
ChildStop ==
    /\ cproc = "running"
    /\ cpc = "traceme"
    /\ cproc' = StopsItself(cproc)
    /\ cpc' = "parked"
    /\ UNCHANGED <<cstatus, cterm, cIdx, mounts, croot, cdir, child_created_files>>
    /\ UNCHANGED <<libVars, cfgVars, reportVars, ruleVars, parentVars, fs, hpc, hist>>

\* self.config.command.spawn()?
ChildSpawn ==
    /\ cproc = "running"
    /\ cpc = "parked"
    /\ \E ok \in BOOLEAN :
          IF ok
          THEN /\ cpc' = "waiting"
               /\ UNCHANGED <<cproc, cstatus>>
          ELSE Panics
    /\ UNCHANGED <<cterm, cIdx, mounts, croot, cdir, child_created_files>>
    /\ UNCHANGED <<libVars, cfgVars, reportVars, ruleVars, parentVars, fs, hpc, hist>>

\* result.code().map(|c| c as isize).unwrap_or(0isize)
result_code(how) == IF how = "exit3" THEN 3 ELSE 0

\* .wait()? and the return of the callback: the child exits with the code
ChildReturn ==
    /\ cproc = "running"
    /\ cpc = "waiting"
    /\ cproc' = "zombie"
    /\ cpc' = "done"
    /\ cstatus' = Exited(ExitCode(result_code(cmd)))
    /\ UNCHANGED <<cterm, cIdx, mounts, croot, cdir, child_created_files>>
    /\ UNCHANGED <<libVars, cfgVars, reportVars, ruleVars, parentVars, fs, hpc, hist>>

-----------------------------------------------------------------------------
(* The specifications *)

\* Enclosure::new, before run
InitRun ==
    /\ ppc = "filter"
    /\ rIdx = 1
    /\ tIdx = 1
    /\ applicable = <<>>
    /\ picked = <<>>
    /\ created_files = <<>>
    /\ created_directories = <<>>
    /\ exit_status = -1
    /\ child_exit_status = -1
    /\ kIdx = 0
    /\ pcode = 0
    /\ pexitBy = "none"
    /\ cpc = "none"
    /\ cproc = "none"
    /\ cstatus = NoStatus
    /\ cterm = FALSE
    /\ cIdx = 1
    /\ mounts = <<>>
    /\ croot = "none"
    /\ cdir = Dir_in("none", <<>>)
    /\ child_created_files = <<>>
    /\ hpc = "uninstalled"
    /\ hist = NoHist
    /\ chan = <<>>
    /\ rxIdx = 1
    /\ buffer = <<>>
    /\ seen_paths = {}
    /\ counter = 0

\* The rule engine on its own: every ruleset of MatchRules
\* No call of a helper outside Enclosure::run is in progress
\* What Command::output gives for a run of newuidmap / newgidmap: whether the
\* helper could be run at all, whether its stderr is UTF-8, its exit status
\* and its stderr, as the message it starts with and the id the message names
Output(io, utf8, status, message, id) ==
    [io |-> io, utf8 |-> utf8, status |-> status, message |-> message, id |-> id]

NotRunYet == Output("none", TRUE, 0, "", 0)

AppendIdle ==
    /\ appendBase = <<>>
    /\ appendParts = <<>>
    /\ appendBuf = <<>>
    /\ appendIdx = 1

MergeIdle ==
    /\ mergeConfigs = <<>>
    /\ merged = <<>>
    /\ mergeIdx = 1

LinkIdle ==
    /\ linkArg = <<>>
    /\ linkPath = <<>>
    /\ linkDepth = 0
    /\ linkCalls = 0
    /\ linkResult = <<>>

RootIdle ==
    /\ rootCalls = <<>>

IdIdle ==
    /\ idHelper = "none"
    /\ idArg = {}
    /\ idMap = {}
    /\ helperCalls = 0
    /\ helperLast = NotRunYet
    /\ idResult = "none"

ReadIdle ==
    /\ mem = <<>>
    /\ register_cache = <<>>
    /\ rcall = <<>>

EnvIdle ==
    /\ envIn = <<>>
    /\ process_env = <<>>
    /\ command_env = <<>>
    /\ envPc = "none"
    /\ envIdx = 0
    /\ spawn_env = <<>>

TableIdle ==
    /\ sysArch = "none"
    /\ syscall_registers = <<>>
    /\ sysIdx = 0

FdIdle ==
    /\ proc_fd = <<>>
    /\ fdCall = <<>>

ExtraIdle ==
    /\ ReadIdle
    /\ EnvIdle
    /\ TableIdle
    /\ FdIdle

TracerIdle ==
    /\ children = <<>>
    /\ pids = <<>>
    /\ runResult = "none"
    /\ tx = <<>>
    /\ procs = <<>>
    /\ stops = 0
    /\ thist = <<>>

LibIdle ==
    /\ AppendIdle
    /\ MergeIdle
    /\ LinkIdle
    /\ RootIdle
    /\ IdIdle
    /\ TracerIdle
    /\ ExtraIdle

InitRules ==
    /\ LibIdle
    /\ rules \in SeqsUpTo(MatchRules, MaxRules)
    /\ prog \in Programs
    /\ cwd \in Cwds
    /\ trace = FALSE
    /\ immutable_root = FALSE
    /\ cmd = "exit0"
    /\ fs = BaseFs
    /\ InitRun

NextRules == RuleIter \/ RuleDone

SpecRules == InitRules /\ [][NextRules]_vars

\* Programs and only lists for test_program: names in $PATH, names that are
\* nowhere, paths, and paths through symlinks
MatchPrograms ==
    Programs \cup { P3("usr", "bin", "l"), P("bin", "l"), <<"none">>, P("tmp", "none") }

MatchOnlys ==
    (OnlyChoices \ {<<>>})
    \cup { << <<"l">> >>, << P3("usr", "bin", "l") >>, << P("tmp", "nope") >> }

\* Rules that are in every context: only the only list decides
InitMatch ==
    /\ LibIdle
    /\ rules \in SeqsUpTo({MatchRule(<<>>, o) : o \in MatchOnlys \cup {<<>>}}, MaxRules)
    /\ prog \in MatchPrograms
    /\ cwd \in Cwds
    /\ trace = FALSE
    /\ immutable_root = FALSE
    /\ cmd = "exit0"
    /\ fs = BaseFs
    /\ InitRun

SpecMatch == InitMatch /\ [][NextRules]_vars

\* The events of a report: without a path, the root itself, below the root,
\* outside the root, relative
Events ==
    { NoPath, Syscall(container_root), InRoot(<<"a">>), InRoot(<<"a", "b">>),
      Syscall(<<"/", "etc">>), Syscall(<<"a">>) }

\* run_with_tracing at `while let Ok(syscall) = rx.recv()`, after a traced
\* run without rules of a command that has exited with 0
InitReport ==
    /\ LibIdle
    /\ rules = <<>>
    /\ prog = <<"ls">>
    /\ cwd = P("tmp", "no")
    /\ trace = TRUE
    /\ immutable_root = FALSE
    /\ cmd = "exit0"
    /\ fs = setup_root(BaseFs, P("tmp", "no")).fs
    /\ ppc = "report"
    /\ rIdx = 1
    /\ tIdx = 1
    /\ applicable = <<>>
    /\ picked = <<>>
    /\ created_files = <<>>
    /\ created_directories = <<>>
    /\ exit_status = -1
    /\ child_exit_status = 0
    /\ kIdx = 0
    /\ pcode = 0
    /\ pexitBy = "none"
    /\ cpc = "done"
    /\ cproc = "reaped"
    /\ cstatus = Exited(0)
    /\ cterm = FALSE
    /\ cIdx = 1
    /\ mounts = <<Mount(Root, container_root)>>
    /\ croot = "chroot"
    /\ cdir = Dir_in("container", P("tmp", "no"))
    /\ child_created_files = <<>>
    /\ hpc = "idle"
    /\ hist = [stopSeen |-> TRUE, uids |-> TRUE, gids |-> TRUE, released |-> TRUE,
               calls |-> <<>>, tracerEnd |-> "event_exit"]
    /\ chan \in SeqsUpTo(Events, MaxEvents)
    /\ rxIdx = 1
    /\ buffer = <<>>
    /\ seen_paths = {}
    /\ counter = 0

NextReport == ReportRecv \/ Report

SpecReport == InitReport /\ [][NextReport]_vars

\* The rules of a run: nested directory targets, a file, a rule for another
\* binary
RunRule(name, target, rewrite, mode, only) ==
    [name |-> name, target |-> target, rewrite |-> rewrite, mode |-> mode,
     context |-> <<>>, only |-> only]

RunRules ==
    { RunRule("a", P("t", "a"), P("r", "a"), "directory", <<>>),
      RunRule("b", P3("t", "a", "b"), P("r", "b"), "directory", <<>>),
      RunRule("f", P("t", "f"), P("r", "f"), "file", <<>>),
      RunRule("n", P("t", "n"), P("r", "n"), "directory", << <<"nope">> >>) }

Init ==
    /\ LibIdle
    /\ rules \in SeqsUpTo(RunRules, MaxRules)
    /\ prog = <<"ls">>
    /\ cwd = P("tmp", "no")
    /\ trace \in BOOLEAN
    /\ immutable_root = FALSE
    /\ cmd \in {"exit0", "exit3", "signal"}
    /\ fs = BaseFs
    /\ InitRun

Next ==
    \/ RuleIter \/ RuleDone \/ TmpIter \/ TmpDone \/ Clone \/ WaitStop
    \/ MapUids \/ MapGids \/ SetHandler \/ Detach \/ WaitLoop \/ CleanupRoot
    \/ CleanUp \/ CleanUpDone \/ Exit
    \/ Flag \/ Resume \/ TracerRun \/ TraceWait \/ ReportRecv \/ Report
    \/ Sigint \/ HandlerKill \/ HandlerCleanup \/ HandlerExit
    \/ ChildFails \/ ChildSetupRoot \/ ChildMountRoot \/ ChildRule
    \/ ChildEnterRoot \/ ChildChdir \/ ChildRemount \/ ChildStop \/ ChildSpawn \/ ChildReturn

Spec == Init /\ [][Next]_vars

\* ctrlc's thread, once woken, gets to run
\* The rules of the runs that are followed up to the child's SIGSTOP: two
\* directory rules and two file rules that share a target, a rule under
\* another rule's target, a rule whose target exists, a rule that does not apply
SetupRules ==
    RunRules \cup { RunRule("c", P("t", "a"), P("r", "c"), "directory", <<>>),
                    RunRule("g", P("t", "f"), P("r", "g"), "file", <<>>),
                    RunRule("e", P("tmp", "yes"), P("r", "e"), "directory", <<>>) }

InitSetup ==
    /\ LibIdle
    /\ rules \in SeqsUpTo(SetupRules, MaxRules)
    /\ prog = <<"ls">>
    /\ cwd = P("tmp", "no")
    /\ trace \in BOOLEAN
    /\ immutable_root \in BOOLEAN
    /\ cmd = "exit0"
    /\ fs = BaseFs
    /\ InitRun

\* Enclosure::run up to the child's SIGSTOP: the parent is in
\* waitpid(pid, WSTOPPED) for as long as the child sets the container up
NextSetup ==
    \/ RuleIter \/ RuleDone \/ TmpIter \/ TmpDone \/ Clone
    \/ ChildFails \/ ChildSetupRoot \/ ChildMountRoot \/ ChildRule
    \/ ChildEnterRoot \/ ChildChdir \/ ChildRemount \/ ChildStop

SpecSetup == InitSetup /\ [][NextSetup]_vars

FairSpec == Spec /\ WF_vars(HandlerKill \/ HandlerCleanup \/ HandlerExit)

\* The main thread, in the wait loop, gets to run
FairWaitSpec == Spec /\ WF_vars(WaitLoop)

-----------------------------------------------------------------------------
(* The helpers on their own: one call each, on inputs drawn from small sets *)

\* The enclosure as it is constructed and not run
NotRun ==
    /\ rules = <<>>
    /\ prog = <<"ls">>
    /\ cwd = P("tmp", "no")
    /\ trace = FALSE
    /\ immutable_root = FALSE
    /\ cmd = "exit0"
    /\ InitRun

Bases == {<<>>, Root, <<"r">>, <<"/", "r">>, container_root}

Parts == {<<>>, Root, <<"e">>, <<"/", "e">>, <<"/", "e", "p">>, <<"..">>}

InitAppend ==
    /\ NotRun
    /\ IdIdle
    /\ TracerIdle
    /\ ExtraIdle
    /\ fs = BaseFs
    /\ appendBase \in Bases
    /\ appendParts \in SeqsUpTo(Parts, MaxParts)
    /\ appendBuf = appendBase
    /\ appendIdx = 1
    /\ MergeIdle
    /\ LinkIdle
    /\ RootIdle

\* append_all, one iteration of `for part in parts`
AppendPart ==
    /\ appendIdx <= Len(appendParts)
    /\ appendBuf' = push(appendBuf, strip_root(appendParts[appendIdx]))
    /\ appendIdx' = appendIdx + 1
    /\ UNCHANGED <<appendBase, appendParts, mergeVars, linkVars, rootCalls, idVars, tracerVars, extraVars>>
    /\ UNCHANGED <<cfgVars, ruleVars, parentVars, childVars, fs, hpc, hist, reportVars>>

SpecAppend == InitAppend /\ [][AppendPart]_vars

\* The rulesets that are merged: rules that differ and rules that are equal
MergeRules ==
    { RunRule("a", P("t", "a"), P("r", "a"), "directory", <<>>),
      RunRule("f", P("t", "f"), P("r", "f"), "file", <<>>) }

InitMerge ==
    /\ NotRun
    /\ IdIdle
    /\ TracerIdle
    /\ ExtraIdle
    /\ fs = BaseFs
    /\ mergeConfigs \in SeqsUpTo(SeqsUpTo(MergeRules, MaxConfigRules), MaxConfigs)
    /\ merged = <<>>
    /\ mergeIdx = 1
    /\ AppendIdle
    /\ LinkIdle
    /\ RootIdle

\* An outcome of the extend that leaves out the rules merged.rules holds already
extend_new(into, from) ==
    into \o SelectSeq(from, LAMBDA r : \A i \in 1..Len(into) : into[i] # r)

\* Vec::extend
extend(into, from) == into \o from

\* BoxxyConfig::merge, one iteration of `for config in configs`
MergeConfig ==
    /\ mergeIdx <= Len(mergeConfigs)
    /\ merged' = extend(merged, mergeConfigs[mergeIdx])
    /\ mergeIdx' = mergeIdx + 1
    /\ UNCHANGED <<appendVars, mergeConfigs, linkVars, rootCalls, idVars, tracerVars, extraVars>>
    /\ UNCHANGED <<cfgVars, ruleVars, parentVars, childVars, fs, hpc, hist, reportVars>>

SpecMerge == InitMerge /\ [][MergeConfig]_vars

\* The filesystems the root helpers are called on: no /tmp/boxxy-containers,
\* an empty one, one with the root, one with the root and a file in it
RootFs ==
    { BaseFs,
      create_dir_all(BaseFs, P("tmp", "no"), all_containers_root).fs,
      create_dir_all(BaseFs, P("tmp", "no"), container_root).fs,
      touch(create_dir_all(BaseFs, P("tmp", "no"), container_root).fs, P("tmp", "no"),
            Append(container_root, "x")).fs }

InitRoot ==
    /\ NotRun
    /\ IdIdle
    /\ TracerIdle
    /\ ExtraIdle
    /\ fs \in RootFs
    /\ RootIdle
    /\ AppendIdle
    /\ MergeIdle
    /\ LinkIdle

\* A call of a helper on the filesystem, with what it returned
RootCall(fn, res) ==
    /\ fs' = res.fs
    /\ rootCalls' = Append(rootCalls, [fn |-> fn, ok |-> res.ok, before |-> fs,
                                       after |-> res.fs])
    /\ UNCHANGED <<appendVars, mergeVars, linkVars, idVars, tracerVars, extraVars>>
    /\ UNCHANGED <<cfgVars, ruleVars, parentVars, childVars, hpc, hist, reportVars>>

\* driver.setup_root(name)
RootSetup ==
    /\ Len(rootCalls) < MaxRootCalls
    /\ RootCall("setup_root", setup_root(fs, cwd))

\* driver.cleanup_root(name)
RootCleanup ==
    /\ Len(rootCalls) < MaxRootCalls
    /\ RootCall("cleanup_root", cleanup_root(fs, cwd))

\* driver.touch(&root.join("x")): something is put under the root
RootTouch ==
    /\ Len(rootCalls) < MaxRootCalls
    /\ RootCall("touch", touch(fs, cwd, Append(container_root, "x")))

NextRoot == RootSetup \/ RootCleanup \/ RootTouch

SpecRoot == InitRoot /\ [][NextRoot]_vars

\* The names of the symlinks of a chain, in the directory /l
LinkNames == <<"l1", "l2", "l3", "l4", "l5", "l6", "l7", "l8", "l9", "l10", "l11",
               "l12", "l13", "l14", "l15", "l16">>

LinkAt(i) == <<"/", "l", LinkNames[i]>>

\* /l with n symlinks, every one to the next and the last one to the file /l/t
ChainFs(n) ==
    BaseFs @@ (<<"/", "l">> :> Dir) @@ (P("l", "t") :> File)
    @@ [p \in {LinkAt(i) : i \in 1..n} |->
           Link(IF p = LinkAt(n) THEN P("l", "t")
                ELSE LinkAt(1 + CHOOSE i \in 1..n : p = LinkAt(i)))]

\* /l with n symlinks, every one to the next and the last one to the first
CycleFs(n) ==
    BaseFs @@ (<<"/", "l">> :> Dir)
    @@ [p \in {LinkAt(i) : i \in 1..n} |->
           Link(IF p = LinkAt(n) THEN LinkAt(1)
                ELSE LinkAt(1 + CHOOSE i \in 1..n : p = LinkAt(i)))]

LinkFs == {ChainFs(n) : n \in 0..MaxChain} \cup {CycleFs(n) : n \in 1..MaxCycle}

\* maybe_resolve_symlink has not returned
Pending == <<"pending">>

InitResolve ==
    /\ NotRun
    /\ IdIdle
    /\ TracerIdle
    /\ ExtraIdle
    /\ fs \in LinkFs
    /\ linkArg \in {p \in DOMAIN fs : StartsWith(p, <<"/", "l">>)}
                    \cup {P("l", "none"), P("tmp", "yes"), P("tmp", "ln")}
    /\ linkPath = linkArg
    /\ linkDepth = 0
    /\ linkCalls = 0
    /\ linkResult = Pending
    /\ AppendIdle
    /\ MergeIdle
    /\ RootIdle

\* do_resolve_symlink(linkPath, linkDepth): one call, up to its return or to
\* the call it makes of itself
ResolveCall ==
    /\ linkResult = Pending
    /\ linkCalls' = linkCalls + 1
    /\ IF linkDepth > MaxSymlinkDepth
       THEN /\ linkResult' = TooManySymlinks
            /\ UNCHANGED <<linkPath, linkDepth>>
       ELSE \E path \in {IF IsSymlink(fs, cwd, linkPath)
                          THEN Canonicalize(fs, cwd, ReadLink(fs, cwd, linkPath))
                          ELSE linkPath} :
               IF ~IsErr(path) /\ IsSymlink(fs, cwd, path)
               THEN /\ linkPath' = path
                    /\ linkDepth' = linkDepth + 1
                    /\ UNCHANGED linkResult
               ELSE /\ linkResult' = path
                    /\ UNCHANGED <<linkPath, linkDepth>>
    /\ UNCHANGED <<appendVars, mergeVars, linkArg, rootCalls, idVars, tracerVars, extraVars>>
    /\ UNCHANGED <<cfgVars, ruleVars, parentVars, childVars, fs, hpc, hist, reportVars>>

SpecResolve == InitResolve /\ [][ResolveCall]_vars

-----------------------------------------------------------------------------
(* map_uids and map_gids, for every mapping and every behaviour of the helper *)

Ids == 0..MaxIds

uid_regex == "newuidmap: uid range ["
gid_regex == "newgidmap: gid range ["

\* Everything a run of the helper can give back
Outputs ==
    {Output("Err", TRUE, 0, "", 0), Output("Ok", FALSE, 0, "", 0)}
        \cup {Output("Ok", TRUE, status, "", 0) : status \in {0, 1}}
        \cup {Output("Ok", TRUE, o[1], o[2], o[3]) :
                    o \in {0, 1} \X {uid_regex, gid_regex} \X Ids}

\* check_mapping_regex: the id the first match of regex in stderr names, if
\* stderr has a match
check_mapping_regex(regex, stderr) ==
    IF stderr.message = regex THEN {stderr.id} ELSE {}

InitIdMap ==
    /\ NotRun
    /\ fs = BaseFs
    /\ AppendIdle
    /\ MergeIdle
    /\ LinkIdle
    /\ RootIdle
    /\ TracerIdle
    /\ ExtraIdle
    /\ idHelper \in {"newuidmap", "newgidmap"}
    /\ idArg \in SUBSET Ids \ {{}}
    /\ idMap = idArg
    /\ helperCalls = 0
    /\ helperLast = NotRunYet
    /\ idResult = "pending"

\* One call of map_uids / map_gids, up to its return or to the call it makes
\* of itself
map_ids(helper, regex) ==
    /\ idHelper = helper
    /\ idResult = "pending"
    /\ helperCalls < MaxHelperCalls
    /\ \E output \in Outputs :
          /\ helperCalls' = helperCalls + 1
          /\ helperLast' = output
          /\ IF output.io = "Err" \/ ~output.utf8
             THEN /\ idResult' = "Err"
                  /\ UNCHANGED idMap
             ELSE IF check_mapping_regex(regex, output) # {}
             THEN /\ idMap' = idMap \ check_mapping_regex(regex, output)
                  /\ UNCHANGED idResult
             ELSE /\ idResult' = "Ok"
                  /\ UNCHANGED idMap
    /\ UNCHANGED <<idHelper, idArg>>
    /\ UNCHANGED <<appendVars, mergeVars, linkVars, rootCalls, tracerVars, extraVars>>
    /\ UNCHANGED <<cfgVars, ruleVars, parentVars, childVars, fs, hpc, hist, reportVars>>

map_uids ==
    /\ idHelper = "newuidmap"
    /\ map_ids("newuidmap", uid_regex)

map_gids ==
    /\ idHelper = "newgidmap"
    /\ map_ids("newgidmap", gid_regex)

NextIdMap == map_uids \/ map_gids

SpecIdMap == InitIdMap /\ [][NextIdMap]_vars

-----------------------------------------------------------------------------
(* Tracer::run, against every process tree and every order of stops the    *)
(* kernel can report within the bounds                                      *)

Pids == 1..MaxPids

Signals == {"SIGTRAP", "SIGSTOP", "SIGTERM", "SIGKILL", "SIGCHLD"}

ForkEvents == {"PTRACE_EVENT_CLONE", "PTRACE_EVENT_FORK", "PTRACE_EVENT_VFORK"}

\* nix::sys::wait::WaitStatus, with what ptrace::getevent would give for it
WaitStatus(kind, signal, event, msg) ==
    [kind |-> kind, signal |-> signal, event |-> event, msg |-> msg]

StillAlive == WaitStatus("StillAlive", "", "", 0)

\* A process as the kernel has it: st is "none" (no such process yet), "run",
\* "stop" (in a ptrace-stop or just attached, status not yet collected),
\* "held" (in a ptrace-stop, status collected), "zombie" (dead, status not yet
\* collected), "reaped" or "detached"; insys is whether it is inside a
\* syscall, nsys how many syscalls it has entered
Proc(st, status, insys, nsys) ==
    [st |-> st, status |-> status, insys |-> insys, nsys |-> nsys]

\* ChildProcess::new
ChildProcess_root(pid, parent) ==
    [state |-> "Created", last_signal |-> {}, parent |-> {}]

ChildProcess_new(pid, parent) ==
    [state |-> "Created", last_signal |-> {}, parent |-> parent]

\* HashMap::insert
Insert(map, key, value) ==
    [k \in DOMAIN map \cup {key} |-> IF k = key THEN value ELSE map[k]]

\* Tracer::new
Tracer_new(pid) ==
    Insert(<<>>, pid, [ChildProcess_new(pid, {}) EXCEPT !.state = "Running"])

\* Tracer::new(root), after Enclosure::run_with_tracing has flagged the root
\* and resumed it from its SIGSTOP; the kernel has the pids of pool to give
\* and reports at most budget stops and deaths
StartTracer(root, pool, budget) ==
    /\ NotRun
    /\ fs = BaseFs
    /\ AppendIdle
    /\ MergeIdle
    /\ LinkIdle
    /\ RootIdle
    /\ IdIdle
    /\ ExtraIdle
    /\ children = Tracer_new(root)
    /\ procs = [p \in Pids |-> IF p = root
                                THEN Proc("run", StillAlive, FALSE, 0)
                                ELSE Proc("none", StillAlive, FALSE, 0)]
    /\ thist = [root |-> root,
                pool |-> pool,
                budget |-> budget,
                detaches |-> [p \in Pids |-> 0],
                entries |-> [p \in Pids |-> 0],
                added |-> [p \in Pids |-> {}],
                rootExit |-> FALSE,
                last |-> [pid |-> root, status |-> StillAlive,
                          state |-> "Running", resumed |-> FALSE,
                          inject |-> {}]]
    /\ pids = <<>>
    /\ runResult = "running"
    /\ tx = <<>>
    /\ stops = 0

InitTracer == \E root \in Pids : StartTracer(root, Pids, MaxStops)

\* The root and one more process, followed for two stops more
InitTeardown == \E root \in 1..2 : StartTracer(root, 1..2, MaxStops + 2)

NotTracer ==
    UNCHANGED <<appendVars, mergeVars, linkVars, rootCalls, idVars, extraVars, cfgVars, ruleVars,
                parentVars, childVars, fs, hpc, hist, reportVars>>

(* The kernel *)

\* What the kernel does to process p, which stops or dies with status
Reports(p, st, status, insys, nsys) ==
    /\ stops < thist.budget
    /\ stops' = stops + 1
    /\ procs' = [procs EXCEPT ![p] = Proc(st, status, insys, nsys)]
    /\ UNCHANGED <<children, pids, runResult, tx, thist>>
    /\ NotTracer

\* A syscall-stop, at the entry of a syscall or at its exit (TRACESYSGOOD)
KernelSyscallStop ==
    \E p \in Pids :
        /\ procs[p].st = "run"
        /\ IF procs[p].insys
           THEN Reports(p, "stop", WaitStatus("PtraceSyscall", "", "", 0), FALSE,
                        procs[p].nsys)
           ELSE Reports(p, "stop", WaitStatus("PtraceSyscall", "", "", 0), TRUE,
                        procs[p].nsys + 1)

\* clone, fork or vfork: the caller stops with the event inside the syscall,
\* the new process is attached and starts with a SIGSTOP (TRACEFORK,
\* TRACEVFORK, TRACECLONE)
KernelFork ==
    \E p \in Pids, c \in Pids, event \in ForkEvents :
        /\ procs[p].st = "run"
        /\ procs[p].insys
        /\ procs[c].st = "none"
        /\ c \in thist.pool
        /\ stops < thist.budget
        /\ stops' = stops + 1
        /\ procs' = [procs EXCEPT
                        ![p] = Proc("stop", WaitStatus("PtraceEvent", "SIGTRAP", event, c),
                                    TRUE, procs[p].nsys),
                        ![c] = Proc("stop", WaitStatus("Stopped", "SIGSTOP", "", 0),
                                    FALSE, 0)]
        /\ UNCHANGED <<children, pids, runResult, tx, thist>>
        /\ NotTracer

\* execve: the event stop inside the syscall (TRACEEXEC)
KernelExec ==
    \E p \in Pids :
        /\ procs[p].st = "run"
        /\ procs[p].insys
        /\ Reports(p, "stop", WaitStatus("PtraceEvent", "SIGTRAP", "PTRACE_EVENT_EXEC", 0),
                   TRUE, procs[p].nsys)

\* exit, exit_group: the event stop before the process dies (TRACEEXIT)
KernelExit ==
    \E p \in Pids :
        /\ procs[p].st = "run"
        /\ procs[p].insys
        /\ Reports(p, "stop", WaitStatus("PtraceEvent", "SIGTRAP", "PTRACE_EVENT_EXIT", 0),
                   TRUE, procs[p].nsys)

\* A signal other than SIGKILL is about to be delivered: signal-delivery-stop
KernelSignal ==
    \E p \in Pids, signal \in Signals \ {"SIGKILL"} :
        /\ procs[p].st = "run"
        /\ ~procs[p].insys
        /\ Reports(p, "stop", WaitStatus("Stopped", signal, "", 0), FALSE, procs[p].nsys)

\* SIGKILL: the process dies without a stop, running or stopped
KernelKill ==
    \E p \in Pids :
        /\ procs[p].st \in {"run", "stop", "held"}
        /\ Reports(p, "zombie", WaitStatus("Signaled", "SIGKILL", "", 0),
                   procs[p].insys, procs[p].nsys)

\* The process is ended by the exit_group of another thread of its group: it
\* dies with the group's exit code and without a stop
KernelGroupExit ==
    \E p \in Pids :
        /\ procs[p].st = "run"
        /\ Reports(p, "zombie", WaitStatus("Exited", "", "", 0), procs[p].insys,
                   procs[p].nsys)

(* ptrace and waitpid *)

\* ptrace requests succeed on a tracee in a ptrace-stop and fail with ESRCH
\* on anything else
Traced(ps, pid) == ps[pid].st = "held"

\* ptrace::syscall
ptrace_syscall(ps, pid) == [ps EXCEPT ![pid].st = "run"]

\* ptrace::detach
ptrace_detach(ps, pid) == [ps EXCEPT ![pid].st = "detached"]

\* waitpid(pid, WNOHANG): the status it returns
waitpid(ps, pid) ==
    IF ps[pid].st \in {"stop", "zombie"} THEN ps[pid].status
    ELSE IF ps[pid].st \in {"run", "held"} THEN StillAlive
    ELSE WaitStatus("ECHILD", "", "", 0)

\* waitpid(pid, WNOHANG): what it leaves of the process
Collected(ps, pid) ==
    IF ps[pid].st = "stop" THEN [ps EXCEPT ![pid].st = "held", ![pid].status = StillAlive]
    ELSE IF ps[pid].st = "zombie"
    THEN [ps EXCEPT ![pid].st = "reaped", ![pid].status = StillAlive]
    ELSE ps

(* Tracer *)

\* What a handler leaves: the children, the processes, the detach calls made
\* and whether it returned Ok
Outcome(ch, ps, det, ok) == [children |-> ch, procs |-> ps, detaches |-> det, ok |-> ok]

\* handle_root_exit, `for child in children`: the loop over the clone of
\* children, in the order the map gives them
RECURSIVE detach_all(_, _, _, _)
detach_all(order, ch, ps, det) ==
    IF order = <<>> THEN Outcome(ch, ps, det, TRUE)
    ELSE IF ~Traced(ps, Head(order))
    THEN Outcome(ch, ps, [det EXCEPT ![Head(order)] = @ + 1], FALSE)
    ELSE detach_all(Tail(order), Remove(ch, {Head(order)}),
                    ptrace_detach(ps, Head(order)),
                    [det EXCEPT ![Head(order)] = @ + 1])

\* The orders a HashMap can give its values in
Orders(S) ==
    {q \in [1..Cardinality(S) -> S] : \A i, j \in DOMAIN q : q[i] = q[j] => i = j}

\* handle_root_exit: every outcome it can have
handle_root_exit(ch, ps, det) ==
    {detach_all(order, ch, ps, det) : order \in Orders(DOMAIN ch)}

\* remove_child: every outcome it can have
remove_child(ch, ps, det, pid) ==
    IF ~Traced(ps, pid)
    THEN {Outcome(Remove(ch, {pid}), ps, [det EXCEPT ![pid] = @ + 1], FALSE)}
    ELSE IF pid \in DOMAIN ch /\ ch[pid].parent = {}
    THEN handle_root_exit(Remove(ch, {pid}), ptrace_detach(ps, pid),
                          [det EXCEPT ![pid] = @ + 1])
    ELSE {Outcome(Remove(ch, {pid}), ptrace_detach(ps, pid),
                  [det EXCEPT ![pid] = @ + 1], TRUE)}

\* The pids of S in ascending order
RECURSIVE Sorted(_)
Sorted(S) ==
    IF S = {} THEN <<>>
    ELSE <<CHOOSE p \in S : \A q \in S : p <= q>>
            \o Sorted(S \ {CHOOSE p \in S : \A q \in S : p <= q})

\* Tracer::run, `while !self.children.is_empty()`: the test of the loop, and
\* the snapshot of the pids when it goes round
Sweep ==
    /\ runResult = "running"
    /\ pids = <<>>
    /\ IF DOMAIN children = {}
       THEN /\ runResult' = "Ok"
            /\ UNCHANGED pids
       ELSE /\ pids' = Sorted(DOMAIN children)
            /\ UNCHANGED runResult
    /\ UNCHANGED <<children, tx, procs, stops, thist>>
    /\ NotTracer

\* wait_on_child is called for the next pid of the sweep and waitpid gives
\* a status of this kind
Waits(kind) ==
    /\ runResult = "running"
    /\ pids # <<>>
    /\ waitpid(procs, Head(pids)).kind = kind
    /\ pids' = Tail(pids)
    /\ UNCHANGED stops
    /\ NotTracer

\* What wait_on_child leaves when it is done with a status: the handler has
\* left the children ch and the processes ps, has made the detach calls det,
\* has resumed the process or not, with the signals of inject, and has
\* returned Ok or an error
Leaves(ch, ps, det, resumed, inject, ok) ==
    /\ children' = ch
    /\ procs' = ps
    /\ runResult' = IF ok THEN "running" ELSE "Err"
    /\ thist' = [thist EXCEPT
                    !.detaches = det,
                    !.last = [pid |-> Head(pids),
                              status |-> waitpid(procs, Head(pids)),
                              state |-> IF Head(pids) \in DOMAIN children
                                        THEN children[Head(pids)].state ELSE "none",
                              resumed |-> resumed,
                              inject |-> inject],
                    !.rootExit = @ \/ (/\ Head(pids) = thist.root
                                       /\ \/ waitpid(procs, Head(pids)).kind = "Exited"
                                          \/ waitpid(procs, Head(pids)).event
                                                 = "PTRACE_EVENT_EXIT"),
                    !.entries[Head(pids)] =
                        IF /\ waitpid(procs, Head(pids)).kind = "PtraceSyscall"
                           /\ procs[Head(pids)].insys
                        THEN @ + 1 ELSE @,
                    !.added = IF waitpid(procs, Head(pids)).event \in ForkEvents
                              THEN [@ EXCEPT ![waitpid(procs, Head(pids)).msg] =
                                       {[by |-> Head(pids),
                                         as |-> ch[waitpid(procs, Head(pids)).msg]]}]
                              ELSE @]

\* wait_on_child, the process has not changed state; or waitpid fails, the
\* process being no child or tracee of the tracer any more
WaitStillAlive ==
    /\ \/ Waits("StillAlive")
       \/ Waits("ECHILD")
    /\ runResult' = IF waitpid(procs, Head(pids)).kind = "ECHILD" THEN "Err" ELSE "running"
    /\ UNCHANGED <<children, tx, procs, thist>>

\* wait_on_child, WaitStatus::Exited
WaitExited ==
    /\ Waits("Exited")
    /\ \E o \in remove_child(children, Collected(procs, Head(pids)), thist.detaches,
                             Head(pids)) :
          Leaves(o.children, o.procs, o.detaches, FALSE, {}, o.ok)
    /\ UNCHANGED tx

\* wait_on_child, WaitStatus::PtraceEvent
WaitPtraceEvent ==
    /\ Waits("PtraceEvent")
    /\ UNCHANGED tx
    /\ \E pid \in {Head(pids)}, status \in {waitpid(procs, Head(pids))},
          ps \in {Collected(procs, Head(pids))},
          ch \in {[children EXCEPT ![Head(pids)].last_signal =
                                       {waitpid(procs, Head(pids)).signal}]} :
          IF status.event \in ForkEvents
          THEN Leaves(Insert(ch, status.msg, ChildProcess_new(status.msg, {pid})),
                      ptrace_syscall(ps, pid), thist.detaches, TRUE, {status.signal},
                      TRUE)
          ELSE IF status.event = "PTRACE_EVENT_EXEC"
          THEN Leaves(ch, ptrace_syscall(ps, pid), thist.detaches, TRUE, {status.signal},
                      TRUE)
          ELSE IF status.event = "PTRACE_EVENT_EXIT"
          THEN IF ch[pid].parent = {}
               THEN \E o \in handle_root_exit(ch, ptrace_detach(ps, pid),
                                              [thist.detaches EXCEPT ![pid] = @ + 1]) :
                       Leaves(o.children, o.procs, o.detaches, FALSE, {}, o.ok)
               ELSE \E o \in remove_child(ch, ps, thist.detaches, pid) :
                       Leaves(o.children, o.procs, o.detaches, FALSE, {}, o.ok)
          ELSE Leaves(ch, ps, thist.detaches, FALSE, {}, TRUE)

\* handle_syscall: the Syscall event, by the process, its syscall and the stop
\* it was read at
handle_syscall(pid, ps) ==
    [pid |-> pid, syscall |-> ps[pid].nsys,
     at |-> IF ps[pid].insys THEN "entry" ELSE "exit"]

\* wait_on_child, WaitStatus::PtraceSyscall
WaitPtraceSyscall ==
    /\ Waits("PtraceSyscall")
    /\ \E pid \in {Head(pids)}, ps \in {Collected(procs, Head(pids))},
          ch \in {[children EXCEPT ![Head(pids)].last_signal = {}]} :
          IF ch[pid].state = "Running"
          THEN /\ tx' = Append(tx, handle_syscall(pid, ps))
               /\ Leaves([ch EXCEPT ![pid].state = "EnteringSyscall"],
                         ptrace_syscall(ps, pid), thist.detaches, TRUE, {}, TRUE)
          ELSE IF ch[pid].state = "EnteringSyscall"
          THEN /\ UNCHANGED tx
               /\ Leaves([ch EXCEPT ![pid].state = "ExitingSyscall"],
                         ptrace_syscall(ps, pid), thist.detaches, TRUE, {}, TRUE)
          ELSE IF ch[pid].state = "ExitingSyscall"
          THEN /\ UNCHANGED tx
               /\ Leaves([ch EXCEPT ![pid].state = "Running"],
                         ptrace_syscall(ps, pid), thist.detaches, TRUE, {}, TRUE)
          ELSE /\ UNCHANGED tx
               /\ Leaves(ch, ps, thist.detaches, FALSE, {}, TRUE)

\* wait_on_child, WaitStatus::Signaled
WaitSignaled ==
    /\ Waits("Signaled")
    /\ UNCHANGED tx
    /\ \E pid \in {Head(pids)}, signal \in {waitpid(procs, Head(pids)).signal},
          ps \in {Collected(procs, Head(pids))},
          ch \in {[children EXCEPT ![Head(pids)].last_signal =
                                       {waitpid(procs, Head(pids)).signal}]} :
          IF signal = "SIGTRAP"
          THEN IF ch[pid].state = "Created"
               THEN Leaves([ch EXCEPT ![pid].state = "Running"],
                           IF Traced(ps, pid) THEN ptrace_syscall(ps, pid) ELSE ps,
                           thist.detaches, Traced(ps, pid), {}, Traced(ps, pid))
               ELSE IF ch[pid].state = "Running"
               THEN Leaves([ch EXCEPT ![pid].state = "PtraceEvent"],
                           IF Traced(ps, pid) THEN ptrace_syscall(ps, pid) ELSE ps,
                           thist.detaches, Traced(ps, pid), {}, Traced(ps, pid))
               ELSE Leaves(ch, ps, thist.detaches, FALSE, {}, TRUE)
          ELSE IF signal \in {"SIGTERM", "SIGKILL"}
          THEN \E o \in remove_child(ch, ps, thist.detaches, pid) :
                  Leaves(o.children, o.procs, o.detaches, FALSE, {}, o.ok)
          ELSE Leaves(ch, IF Traced(ps, pid) THEN ptrace_syscall(ps, pid) ELSE ps,
                      thist.detaches, Traced(ps, pid),
                      IF Traced(ps, pid) THEN ch[pid].last_signal ELSE {},
                      Traced(ps, pid))

\* wait_on_child, WaitStatus::Stopped
WaitStopped ==
    /\ Waits("Stopped")
    /\ UNCHANGED tx
    /\ \E pid \in {Head(pids)}, signal \in {waitpid(procs, Head(pids)).signal},
          ps \in {Collected(procs, Head(pids))},
          ch \in {[children EXCEPT ![Head(pids)].last_signal = {}]} :
          IF signal \in {"SIGTRAP", "SIGSTOP"}
          THEN IF ch[pid].state = "Created"
               THEN Leaves([ch EXCEPT ![pid].state = "Running"], ptrace_syscall(ps, pid),
                           thist.detaches, TRUE, {}, TRUE)
               ELSE IF ch[pid].state = "Running"
               THEN Leaves(ch, ptrace_syscall(ps, pid), thist.detaches, TRUE,
                           ch[pid].last_signal, TRUE)
               ELSE Leaves(ch, ps, thist.detaches, FALSE, {}, TRUE)
          ELSE \E o \in remove_child(ch, ps, thist.detaches, pid) :
                  Leaves(o.children, o.procs, o.detaches, FALSE, {}, o.ok)

NextTracer ==
    \/ KernelSyscallStop \/ KernelFork \/ KernelExec \/ KernelExit \/ KernelSignal
    \/ KernelKill \/ KernelGroupExit
    \/ Sweep \/ WaitStillAlive \/ WaitExited \/ WaitPtraceEvent \/ WaitPtraceSyscall
    \/ WaitSignaled \/ WaitStopped

SpecTracer == InitTracer /\ [][NextTracer]_vars

SpecTeardown == InitTeardown /\ [][NextTracer]_vars

-----------------------------------------------------------------------------
(* ChildProcess::read_string and the register cache, for every content of  *)
(* the tracee's memory, with words of WordBytes bytes                       *)

PATH_MAX == MaxPathWords * WordBytes

Bytes == {0, 97, 255}

Registers == {"Rdi", "Rsi"}

Memories == UNION {[1..n -> Bytes] : n \in 0..PATH_MAX}

\* What read_string returns
ReadResult(st, s) == [st |-> st, s |-> s]

\* The call of read_string that runs or has returned last, in the stop the
\* tracer is handling: the register, the index of the word addr is at, buf,
\* the words read from the tracee, what it returned and whether the cache
\* answered it; and how many calls this stop has had
ReadCall(stop, calls, register, addr, buf, reads, result, hit) ==
    [stop |-> stop, calls |-> calls, register |-> register, addr |-> addr, buf |-> buf,
     reads |-> reads, result |-> result, hit |-> hit]

InitRead ==
    /\ NotRun
    /\ fs = BaseFs
    /\ AppendIdle
    /\ MergeIdle
    /\ LinkIdle
    /\ RootIdle
    /\ IdIdle
    /\ TracerIdle
    /\ EnvIdle
    /\ TableIdle
    /\ FdIdle
    /\ mem \in Memories
    /\ register_cache = <<>>
    /\ rcall = ReadCall(1, 0, "Rdi", 0, <<>>, 0, ReadResult("none", <<>>), FALSE)

NotRead ==
    UNCHANGED <<appendVars, mergeVars, linkVars, rootCalls, idVars, tracerVars, cfgVars,
                ruleVars, parentVars, childVars, fs, hpc, hist, reportVars, envVars,
                tableVars, fdVars>>

\* ptrace::read succeeds on a word that is mapped
Readable(m, addr) == (addr + 1) * WordBytes <= Len(m)

\* ptrace::read: the word at addr, as the little-endian machine has it
RECURSIVE from_le(_)
from_le(bytes) == IF bytes = <<>> THEN 0 ELSE Head(bytes) + 256 * from_le(Tail(bytes))

ptrace_read(m, addr) == from_le(SubSeq(m, addr * WordBytes + 1, (addr + 1) * WordBytes))

\* buf.write_u64::<LittleEndian>(c), for a word of n bytes
RECURSIVE write_u64_be(_, _)
write_u64_be(c, n) ==
    IF n = 0 THEN <<>> ELSE write_u64_be(c \div 256, n - 1) \o <<c % 256>>

RECURSIVE write_u64(_, _)
write_u64(c, n) ==
    IF n = 0 THEN <<>> ELSE <<c % 256>> \o write_u64(c \div 256, n - 1)

\* buf.iter().position(|c| *c == 0) and buf.truncate(idx)
truncate(buf) ==
    IF \E i \in 1..Len(buf) : buf[i] = 0
    THEN SubSeq(buf, 1, (CHOOSE i \in 1..Len(buf) :
                            buf[i] = 0 /\ \A j \in 1..(i - 1) : buf[j] # 0) - 1)
    ELSE buf

\* String::from_utf8 succeeds
from_utf8(buf) == \A i \in 1..Len(buf) : buf[i] < 128

\* ChildProcess::clear_register_cache
keep_register_cache(cache) == cache

clear_register_cache(cache) == <<>>

\* read_string, up to the loop: the cache answers, or the loop starts
ReadStringEnter ==
    /\ rcall.result.st # "pending"
    /\ rcall.calls < MaxReadCalls
    /\ \E register \in Registers :
          rcall' = IF register \in DOMAIN register_cache
                   THEN ReadCall(rcall.stop, rcall.calls + 1, register, 0, <<>>, 0,
                                 ReadResult("Ok", register_cache[register].s), TRUE)
                   ELSE ReadCall(rcall.stop, rcall.calls + 1, register, 0, <<>>, 0,
                                 ReadResult("pending", <<>>), FALSE)
    /\ UNCHANGED <<mem, register_cache>>
    /\ NotRead

\* read_string, from the break of the loop on: buf is what the loop has left
Returns(buf) ==
    IF from_utf8(buf)
    THEN /\ register_cache' = Insert(register_cache, rcall.register,
                                     [s |-> buf, stop |-> rcall.stop])
         /\ rcall' = [rcall EXCEPT !.reads = @ + 1, !.buf = buf,
                                   !.result = ReadResult("Ok", buf)]
    ELSE /\ rcall' = [rcall EXCEPT !.reads = @ + 1, !.buf = buf,
                                   !.result = ReadResult("Err", <<>>)]
         /\ UNCHANGED register_cache

\* read_string, one iteration of the loop, with what follows the loop when
\* the iteration breaks
ReadStringLoop ==
    /\ rcall.result.st = "pending"
    /\ UNCHANGED mem
    /\ NotRead
    /\ IF ~Readable(mem, rcall.addr)
       THEN /\ rcall' = [rcall EXCEPT !.result = ReadResult("Err", <<>>)]
            /\ UNCHANGED register_cache
       ELSE \E c \in {ptrace_read(mem, rcall.addr)} :
               IF c = 0 THEN Returns(rcall.buf)
               ELSE \E buf \in {rcall.buf \o write_u64(c, WordBytes)} :
                       IF Len(buf) >= PATH_MAX \/ truncate(buf) # buf
                       THEN Returns(truncate(buf))
                       ELSE /\ rcall' = [rcall EXCEPT !.reads = @ + 1, !.buf = buf,
                                                      !.addr = @ + 1]
                            /\ UNCHANGED register_cache

\* wait_on_child, its end: the stop has been handled and the cache of the
\* child is cleared; the next stop is handled
StopEnds ==
    /\ rcall.result.st # "pending"
    /\ rcall.stop < MaxReadStops
    /\ register_cache' = clear_register_cache(register_cache)
    /\ rcall' = ReadCall(rcall.stop + 1, 0, "Rdi", 0, <<>>, 0, ReadResult("none", <<>>),
                         FALSE)
    /\ UNCHANGED mem
    /\ NotRead

NextRead == ReadStringEnter \/ ReadStringLoop \/ StopEnds

SpecRead == InitRead /\ [][NextRead]_vars

-----------------------------------------------------------------------------
(* The environment of the command: Config and Enclosure::set_up_container *)

MaxEnvRules == 3

\* Environments: variable names to values
EnvChoices ==
    { <<>>,
      [k \in {"A"} |-> 1],
      [k \in {"A"} |-> 2],
      [k \in {"A", "B"} |-> IF k = "A" THEN 3 ELSE 1] }

\* What dotenv::dotenv() finds: no file, a file that cannot be read, a file
\* that does not parse, or the variables of the file
DotFile(found, readable, parsed, env) ==
    [found |-> found, readable |-> readable, parsed |-> parsed, env |-> env]

DotFiles ==
    { DotFile(FALSE, FALSE, FALSE, <<>>), DotFile(TRUE, FALSE, FALSE, <<>>),
      DotFile(TRUE, TRUE, FALSE, <<>>) }
    \cup { DotFile(TRUE, TRUE, TRUE, e) : e \in EnvChoices \ {<<>>} }

\* A rule of the ruleset: its env, and whether get_all_applicable_rules
\* returned it
EnvRule(env, applies) == [env |-> env, applies |-> applies]

EnvRules == { EnvRule(e, a) : e \in EnvChoices \ {<<>>}, a \in BOOLEAN }

\* The applicable_rules argument of set_up_container, in rule order
applicable_rules(rs) == SelectSeq(rs, LAMBDA r : r.applies)

NotEnv ==
    UNCHANGED <<appendVars, mergeVars, linkVars, rootCalls, idVars, tracerVars, cfgVars,
                ruleVars, parentVars, childVars, fs, hpc, hist, reportVars, readVars,
                tableVars, fdVars>>

InitEnv ==
    /\ NotRun
    /\ fs = BaseFs
    /\ AppendIdle
    /\ MergeIdle
    /\ LinkIdle
    /\ RootIdle
    /\ IdIdle
    /\ TracerIdle
    /\ ReadIdle
    /\ TableIdle
    /\ FdIdle
    /\ \E parent \in EnvChoices, dotenv \in BOOLEAN, dotfile \in DotFiles,
          rs \in SeqsUpTo(EnvRules, MaxEnvRules) :
          /\ envIn = [parent |-> parent, dotenv |-> dotenv, dotfile |-> dotfile,
                      rules |-> rs]
          /\ process_env = parent
    /\ command_env = <<>>
    /\ envPc = "config"
    /\ envIdx = 1
    /\ spawn_env = <<>>

\* Command::env with a value that is kept when the variable is already set
command_env_keeps(envs, key, value) ==
    IF key \in DOMAIN envs THEN envs ELSE Insert(envs, key, value)

\* Command::env(key, value): the variable is set, or set again
command_env_set(envs, key, value) == Insert(envs, key, value)

RECURSIVE command_envs(_, _)

\* The body of `for (key, value) in map.iter()`, and the rest of the loop
command_envs_from(envs, map, key) ==
    command_envs(command_env_set(envs, key, map[key]),
                 [k \in DOMAIN map \ {key} |-> map[k]])

\* for (key, value) in map.iter() { command.env(key, value); }
command_envs(envs, map) ==
    IF DOMAIN map = {} THEN envs
    ELSE command_envs_from(envs, map, CHOOSE k \in DOMAIN map : TRUE)

\* dotenv::dotenv(): the variables of the file that the process does not
\* have yet are set in the process
dotenv_load(env, file) ==
    [k \in DOMAIN env \cup DOMAIN file |-> IF k \in DOMAIN env THEN env[k] ELSE file[k]]

\* Config: command.envs(std::env::vars())
EnvConfig ==
    /\ envPc = "config"
    /\ command_env' = command_envs(command_env, process_env)
    /\ envPc' = "dotenv"
    /\ UNCHANGED <<envIn, process_env, envIdx, spawn_env>>
    /\ NotEnv

\* set_up_container: `if self.config.dotenv`
EnvDotenv ==
    /\ envPc = "dotenv"
    /\ IF envIn.dotenv /\ envIn.dotfile.found
       THEN IF envIn.dotfile.readable /\ envIn.dotfile.parsed
            THEN /\ process_env' = dotenv_load(process_env, envIn.dotfile.env)
                 /\ command_env' = command_envs(command_env, envIn.dotfile.env)
                 /\ envPc' = "rules"
            ELSE \* read_to_string(..)? or parse_dotenv(..).unwrap()
                 /\ envPc' = "failed"
                 /\ UNCHANGED <<process_env, command_env>>
       ELSE /\ envPc' = "rules"
            /\ UNCHANGED <<process_env, command_env>>
    /\ UNCHANGED <<envIn, envIdx, spawn_env>>
    /\ NotEnv

\* set_up_container: one turn of `for rule in applicable_rules`
EnvRuleIter ==
    /\ envPc = "rules"
    /\ envIdx <= Len(applicable_rules(envIn.rules))
    /\ command_env' = command_envs(command_env, applicable_rules(envIn.rules)[envIdx].env)
    /\ envIdx' = envIdx + 1
    /\ UNCHANGED <<envIn, process_env, envPc, spawn_env>>
    /\ NotEnv

\* self.config.command.spawn(): the process's variables, and over them the
\* variables set on the command
EnvSpawn ==
    /\ envPc = "rules"
    /\ envIdx > Len(applicable_rules(envIn.rules))
    /\ spawn_env' = dotenv_load(command_env, process_env)
    /\ envPc' = "spawned"
    /\ UNCHANGED <<envIn, process_env, command_env, envIdx>>
    /\ NotEnv

NextEnv == EnvConfig \/ EnvDotenv \/ EnvRuleIter \/ EnvSpawn

SpecEnv == InitEnv /\ [][NextEnv]_vars

-----------------------------------------------------------------------------
(* SYSCALL_REGISTERS: the table of syscall/x86_64.rs and syscall/riscv64.rs *)

\* The inserts of syscall/x86_64.rs, in order: libc::SYS_<name>, StringRegister
X86_64Inserts ==
    << <<"read", "Rdi">>, <<"write", "Rdi">>, <<"openat", "Rsi">>, <<"open", "Rdi">>,
      <<"creat", "Rdi">>, <<"close", "Rdi">>, <<"unlinkat", "Rsi">>, <<"unlink", "Rdi">>,
      <<"stat", "Rdi">>, <<"fstat", "Rdi">>, <<"lstat", "Rdi">>, <<"statx", "Rdi">>,
      <<"newfstatat", "Rdi">>, <<"lseek", "Rdi">>, <<"pread64", "Rdi">>,
      <<"pwrite64", "Rdi">>, <<"preadv", "Rdi">>, <<"pwritev", "Rdi">>,
      <<"access", "Rdi">>, <<"faccessat", "Rsi">>, <<"faccessat2", "Rsi">>,
      <<"dup", "Rdi">>, <<"dup2", "Rdi">>, <<"dup3", "Rdi">>, <<"sendfile", "Rdi">>,
      <<"fcntl", "Rdi">>, <<"fsync", "Rdi">>, <<"fdatasync", "Rdi">>,
      <<"truncate", "Rdi">>, <<"ftruncate", "Rdi">>, <<"getdents", "Rdi">>,
      <<"getdents64", "Rdi">>, <<"chdir", "Rdi">>, <<"fchdir", "Rdi">>,
      <<"rename", "Rdi">>, <<"renameat", "Rsi">>, <<"mkdir", "Rdi">>, <<"rmdir", "Rdi">>,
      <<"mkdirat", "Rsi">>, <<"link", "Rsi">>, <<"unlink", "Rdi">>, <<"symlink", "Rdi">>,
      <<"readlink", "Rdi">>, <<"linkat", "Rsi">>, <<"symlinkat", "Rsi">>,
      <<"unlinkat", "Rdi">>, <<"chmod", "Rdi">>, <<"fchmod", "Rdi">>, <<"chown", "Rdi">>,
      <<"fchown", "Rdi">>, <<"lchown", "Rdi">>, <<"fchownat", "Rsi">>,
      <<"fchmodat", "Rsi">>, <<"mknod", "Rdi">>, <<"mknodat", "Rsi">>,
      <<"pivot_root", "Rdi">>, <<"chroot", "Rdi">>, <<"mount", "Rdi">>,
      <<"umount2", "Rdi">>, <<"swapon", "Rdi">>, <<"swapoff", "Rdi">>,
      <<"readahead", "Rdi">>, <<"setxattr", "Rdi">>, <<"lsetxattr", "Rdi">>,
      <<"fsetxattr", "Rdi">>, <<"getxattr", "Rdi">>, <<"lgetxattr", "Rdi">>,
      <<"fgetxattr", "Rdi">>, <<"listxattr", "Rdi">>, <<"llistxattr", "Rdi">>,
      <<"flistxattr", "Rdi">>, <<"removexattr", "Rdi">>, <<"lremovexattr", "Rdi">>,
      <<"fremovexattr", "Rdi">>, <<"fadvise64", "Rdi">>, <<"futimesat", "Rdi">>,
      <<"utimensat", "Rdi">>, <<"splice", "Rdi">>, <<"tee", "Rdi">>,
      <<"sync_file_range", "Rdi">>, <<"vmsplice", "Rdi">>, <<"fallocate", "Rdi">>,
      <<"inotify_init1", "Rdi">>, <<"fanotify_init", "Rdi">>, <<"fanotify_mark", "Rdi">>,
      <<"name_to_handle_at", "Rdi">>, <<"open_by_handle_at", "Rdi">>,
      <<"syncfs", "Rdi">> >>

\* The inserts of syscall/riscv64.rs, in order
Riscv64Inserts ==
    << <<"read", "A0">>, <<"write", "A0">>, <<"openat", "A1">>, <<"close", "A0">>,
      <<"unlinkat", "A1">>, <<"fstat", "A0">>, <<"statx", "A0">>, <<"newfstatat", "A0">>,
      <<"lseek", "A0">>, <<"pread64", "A0">>, <<"pwrite64", "A0">>, <<"preadv", "A0">>,
      <<"pwritev", "A0">>, <<"faccessat", "A1">>, <<"faccessat2", "A1">>, <<"dup", "A0">>,
      <<"dup3", "A0">>, <<"sendfile", "A0">>, <<"fcntl", "A0">>, <<"fsync", "A0">>,
      <<"fdatasync", "A0">>, <<"truncate", "A0">>, <<"ftruncate", "A0">>,
      <<"getdents64", "A0">>, <<"chdir", "A0">>, <<"fchdir", "A0">>,
      <<"renameat2", "A1">>, <<"mkdirat", "A1">>, <<"linkat", "A1">>,
      <<"symlinkat", "A1">>, <<"unlinkat", "A0">>, <<"fchmod", "A0">>, <<"fchown", "A0">>,
      <<"fchownat", "A1">>, <<"fchmodat", "A1">>, <<"mknodat", "A1">>,
      <<"pivot_root", "A0">>, <<"chroot", "A0">>, <<"mount", "A0">>, <<"umount2", "A0">>,
      <<"swapon", "A0">>, <<"swapoff", "A0">>, <<"readahead", "A0">>,
      <<"setxattr", "A0">>, <<"lsetxattr", "A0">>, <<"fsetxattr", "A0">>,
      <<"getxattr", "A0">>, <<"lgetxattr", "A0">>, <<"fgetxattr", "A0">>,
      <<"listxattr", "A0">>, <<"llistxattr", "A0">>, <<"flistxattr", "A0">>,
      <<"removexattr", "A0">>, <<"lremovexattr", "A0">>, <<"fremovexattr", "A0">>,
      <<"fadvise64", "A0">>, <<"utimensat", "A0">>, <<"splice", "A0">>, <<"tee", "A0">>,
      <<"sync_file_range", "A0">>, <<"vmsplice", "A0">>, <<"fallocate", "A0">>,
      <<"inotify_init1", "A0">>, <<"fanotify_init", "A0">>, <<"fanotify_mark", "A0">>,
      <<"name_to_handle_at", "A0">>, <<"open_by_handle_at", "A0">>, <<"syncfs", "A0">> >>

Archs == {"x86_64", "riscv64"}

\* cfg_if!: the table of the target architecture
Inserts(arch) == IF arch = "x86_64" THEN X86_64Inserts ELSE Riscv64Inserts

NotTable ==
    UNCHANGED <<appendVars, mergeVars, linkVars, rootCalls, idVars, tracerVars, cfgVars,
                ruleVars, parentVars, childVars, fs, hpc, hist, reportVars, readVars,
                envVars, fdVars>>

InitTable ==
    /\ NotRun
    /\ fs = BaseFs
    /\ AppendIdle
    /\ MergeIdle
    /\ LinkIdle
    /\ RootIdle
    /\ IdIdle
    /\ TracerIdle
    /\ ReadIdle
    /\ EnvIdle
    /\ FdIdle
    /\ sysArch \in Archs
    /\ syscall_registers = <<>>
    /\ sysIdx = 1

\* m.insert(libc::SYS_.., StringRegister::..): HashMap::insert replaces the
\* value of a key that is there
TableInsert ==
    /\ sysArch \in Archs
    /\ sysIdx <= Len(Inserts(sysArch))
    /\ syscall_registers' = Insert(syscall_registers, Inserts(sysArch)[sysIdx][1],
                                   Inserts(sysArch)[sysIdx][2])
    /\ sysIdx' = sysIdx + 1
    /\ UNCHANGED sysArch
    /\ NotTable

NextTable == TableInsert

SpecTable == InitTable /\ [][NextTable]_vars

-----------------------------------------------------------------------------
(* syscall/mod.rs: get_path_from_syscall and get_fd_path *)

\* Link targets and strings, character by character
PipeLink == <<"p", "i", "p", "e", ":", "[", "7", "]">>
SocketLink == <<"s", "o", "c", "k", "e", "t", ":", "[", "5", "]">>
FileLink == <<"/", "t", "m", "p", "/", "x">>
PipePrefix == <<"p", "i", "p", "e", ":", "[">>
LinkTargets == {PipeLink, SocketLink, FileLink}

\* The descriptors of the tracee, and the one address of its memory that
\* holds a string
Fds == {3, 4}
TraceeStrings == [a \in {4096} |-> <<"/", "e", "t", "c">>]

\* The registers of the first two arguments
ArgRegisters(arch) == IF arch = "x86_64" THEN {"Rdi", "Rsi"} ELSE {"A0", "A1"}

\* Some(x) and None
Some(x) == {x}
None == {}

RECURSIVE split(_, _, _)

\* Path::components on the rest of the string: cur is the component that is
\* being read, acc the components before it
split(str, cur, acc) ==
    IF str = <<>> THEN (IF cur = <<>> THEN acc ELSE Append(acc, cur))
    ELSE IF Head(str) = "/"
    THEN split(Tail(str), <<>>, IF cur = <<>> THEN acc ELSE Append(acc, cur))
    ELSE split(Tail(str), Append(cur, Head(str)), acc)

\* Path::components: the root, when the path is absolute, and the names
components(str) ==
    IF str # <<>> /\ Head(str) = "/" THEN << <<"/">> >> \o split(Tail(str), <<>>, <<>>)
    ELSE split(str, <<>>, <<>>)

\* Path::starts_with: whole components are compared
Path_starts_with(path, base) == StartsWith(components(path), components(base))

\* get_fd_path, the arm Ok(path) of the match on fs::read_link
get_fd_link(path) == IF Path_starts_with(path, PipePrefix) THEN None ELSE Some(path)

\* get_fd_path: the Option inside its Ok; it never returns Err
get_fd_path(links, fd) ==
    IF fd \in DOMAIN links /\ links[fd] # None
    THEN get_fd_link(CHOOSE path \in links[fd] : TRUE)
    ELSE None

\* child.read_string(register, path_ptr): Some(string) for Ok, None for Err,
\* which ptrace::read gives for an address that is not mapped
read_string_at(path_ptr) ==
    IF path_ptr \in DOMAIN TraceeStrings THEN Some(TraceeStrings[path_ptr]) ELSE None

\* get_path_from_syscall, the match on read_string
path_or_fd(links, path_ptr, read) ==
    IF read # None THEN read ELSE get_fd_path(links, path_ptr)

\* get_path_from_syscall: the Option inside its Ok
get_path_from_syscall(links, table, syscall_no, registers) ==
    IF syscall_no \in DOMAIN table
    THEN path_or_fd(links, registers[table[syscall_no]],
                    read_string_at(registers[table[syscall_no]]))
    ELSE None

FdCall(syscall_no, registers, done, path) ==
    [syscall_no |-> syscall_no, registers |-> registers, done |-> done, path |-> path]

NotFd ==
    UNCHANGED <<appendVars, mergeVars, linkVars, rootCalls, idVars, tracerVars, cfgVars,
                ruleVars, parentVars, childVars, fs, hpc, hist, reportVars, readVars,
                envVars>>

InitFd ==
    /\ NotRun
    /\ fs = BaseFs
    /\ AppendIdle
    /\ MergeIdle
    /\ LinkIdle
    /\ RootIdle
    /\ IdIdle
    /\ TracerIdle
    /\ ReadIdle
    /\ EnvIdle
    /\ sysArch \in Archs
    /\ syscall_registers = <<>>
    /\ sysIdx = 1
    /\ proc_fd \in [Fds -> {None} \cup {Some(l) : l \in LinkTargets}]
    /\ \E syscall_no \in {"read", "openat", "getpid"} :
          \E registers \in [ArgRegisters(sysArch) -> Fds \cup DOMAIN TraceeStrings] :
             fdCall = FdCall(syscall_no, registers, FALSE, None)

\* handle_syscall: let path = get_path_from_syscall(..)?, on the table that
\* lazy_static! has built
GetPathFromSyscall ==
    /\ fdCall # <<>>
    /\ ~fdCall.done
    /\ sysIdx > Len(Inserts(sysArch))
    /\ fdCall' = [fdCall EXCEPT
                    !.done = TRUE,
                    !.path = get_path_from_syscall(proc_fd, syscall_registers,
                                                   fdCall.syscall_no, fdCall.registers)]
    /\ UNCHANGED <<proc_fd, tableVars>>
    /\ NotFd

NextFd == TableInsert \/ GetPathFromSyscall

SpecFd == InitFd /\ [][NextFd]_vars

-----------------------------------------------------------------------------
(* Properties of get_all_applicable_rules, checked under SpecRules *)

\* How often x occurs in the sequence s
CountIn(s, x) == Cardinality({k \in 1..Len(s) : s[k] = x})

\* The rules the loop has dealt with
Seen == 1..(rIdx - 1)

\* Some entry of the rule's only list matches the program
SomeOnlyMatches(rule) ==
    \E j \in 1..Len(rule.only) : test_program(fs, cwd, prog, rule.only[j]) = "yes"

\* C2, as the specification states it: a rule whose context list is not empty
\* and whose only list is empty is selected exactly when the working
\* directory lies within one of its context directories.
C2_SelectedIffInContext ==
    ppc = "tmpfiles" =>
        \A i \in 1..Len(rules) :
            (rules[i].context # <<>> /\ rules[i].only = <<>>) =>
                (CountIn(picked, i) > 0 <=> currently_in_context(fs, cwd, rules[i]) = "yes")

\* C3: a rule whose only list is not empty is selected only when the program
\* matches one of the entries of the list.
C3_OnlyRestricts ==
    \A k \in 1..Len(picked) :
        rules[picked[k]].only # <<>> => SomeOnlyMatches(rules[picked[k]])

\* C3's case: the loop is over, the working directory is within the context
\* of a rule whose only list matches nothing, and the rule was left out.
C3_Witness ==
    /\ ppc = "tmpfiles"
    /\ \E i \in 1..Len(rules) :
          /\ rules[i].only # <<>>
          /\ rules[i].context # <<>>
          /\ currently_in_context(fs, cwd, rules[i]) = "yes"
          /\ ~SomeOnlyMatches(rules[i])
          /\ CountIn(picked, i) = 0

C5_Subsequence ==
    /\ Len(applicable) = Len(picked)
    /\ \A k \in 1..Len(picked) :
          /\ picked[k] \in Seen
          /\ applicable[k] = rules[picked[k]]
          /\ k > 1 => picked[k - 1] < picked[k]
    /\ \A i \in Seen : \A j \in Seen :
          rules[i] = rules[j] => (CountIn(picked, i) > 0 <=> CountIn(picked, j) > 0)

\* C5's case: the loop is over, the ruleset holds the same rule twice and
\* the result holds it twice as well.
C5_Witness ==
    /\ ppc = "tmpfiles"
    /\ Len(rules) = 2
    /\ rules[1] = rules[2]
    /\ applicable = rules

-----------------------------------------------------------------------------
(* Properties of a run of the enclosure, checked under Spec and FairSpec *)

\* The paths recorded in created_files and created_directories
Recorded ==
    {created_files[i] : i \in 1..Len(created_files)}
        \cup {created_directories[i] : i \in 1..Len(created_directories)}

\* The command has exited normally and the child has passed its code on
CommandExited == cmd # "signal" /\ cpc = "done" /\ cstatus.kind = "exited"

\* No ^C so far
NoSigint == hpc \in {"uninstalled", "idle"}

\* C1, as the specification states it: without tracing, when the command has
\* exited normally with code c and no ^C has come, the parent process ends
\* with exit code c.
C1_ExitCodePropagates ==
    (ppc = "exited" /\ ~trace /\ CommandExited /\ NoSigint) => pcode = cstatus.code

\* C6: the child spawns the command only after the parent has seen the
\* child's stop and has done the uid mapping and the gid mapping, and a
\* stopped child leaves its stop only in the parent's ptrace::detach or
\* ptrace::syscall.
C6_Handshake ==
    /\ [](cpc \in {"waiting", "done"}
            => hist.stopSeen /\ hist.uids /\ hist.gids /\ hist.released)
    /\ [][(cproc = "stopped" /\ cproc' # "stopped")
            => (ppc = (IF trace THEN "resume" ELSE "detach") /\ hist'.released)]_vars

\* C6's case: the child, released by the parent, has spawned the command.
C6_Witness == cpc = "waiting" /\ cproc = "running" /\ hist.released

\* C7, as the specification states it: without tracing, when the command has
\* exited normally and no ^C has come, the parent process ends with the
\* child's status, with every recorded path and the container root removed.
C7_NormalExitCleansUp ==
    (ppc = "exited" /\ ~trace /\ CommandExited /\ NoSigint) =>
        /\ pexitBy = "main"
        /\ Recorded \cap DOMAIN fs = {}
        /\ container_root \notin DOMAIN fs

C9_HandlerDeletesRecorded ==
    pexitBy = "handler" =>
        /\ container_root \notin DOMAIN fs
        /\ Recorded \cap DOMAIN fs = {}

\* C9, amended: the handler removes the container root and nothing else; it
\* deletes none of the recorded paths.
C9_HandlerRemovesRootOnly ==
    [][(hpc = "cleanup_root" /\ hpc' # "cleanup_root")
         => /\ container_root \notin DOMAIN fs'
            /\ \A p \in DOMAIN fs : ~StartsWith(p, container_root) => p \in DOMAIN fs'
            /\ Recorded \cap DOMAIN fs = Recorded \cap DOMAIN fs']_vars

\* C9's case: the handler has ended the process, the container root is gone
\* and the recorded paths, of which there are some, are all still there.
C9_Witness ==
    /\ pexitBy = "handler"
    /\ container_root \notin DOMAIN fs
    /\ Recorded # {}
    /\ Recorded \subseteq DOMAIN fs

\* C10, as the specification states it: when the parent has ended on an
\* error after the clone, the container root is gone.
C10_ErrorRemovesRoot ==
    (pexitBy = "error" /\ cpc # "none") => container_root \notin DOMAIN fs

\* C11, as the specification states it: with tracing, when the run has
\* completed (the parent has ended with the child's status), the container
\* root is gone.
C11_TracedRunRemovesRoot ==
    (trace /\ pexitBy = "main") => container_root \notin DOMAIN fs

-----------------------------------------------------------------------------
(* Properties of the trace report, checked under SpecReport *)

\* The events that are the first to name their path, a path under the root
Firsts ==
    {i \in 1..Len(chan) :
        /\ chan[i].some
        /\ StartsWith(chan[i].path, container_root)
        /\ \A j \in 1..(i - 1) : chan[j] # chan[i]}

\* C12: the written report holds, in the order of first occurrence, one line
\* per distinct event path under the container root, "/" followed by the path
\* relative to the root, nothing for the other events, and at its end the
\* line "# total: n" with n the number of path lines.
C12_ReportLines ==
    (ppc = "exit" /\ trace) =>
        /\ Len(buffer) = Cardinality(Firsts) + 1
        /\ \A i \in Firsts :
              /\ Cardinality({j \in Firsts : j <= i}) \in 1..(Len(buffer) - 1)
              /\ <<"/">> \o SubSeq(chan[i].path, Len(container_root) + 1,
                                   Len(chan[i].path))
                    = buffer[Cardinality({j \in Firsts : j <= i})]
        /\ buffer[Len(buffer)] = <<"# total: ", Cardinality(Firsts)>>

\* C12's case: a report written from three events, a path under the root,
\* an event without a path, and the first path again.
C12_Witness ==
    /\ ppc = "exit"
    /\ Len(chan) = 3
    /\ chan[1] = InRoot(<<"a", "b">>)
    /\ chan[2] = NoPath
    /\ chan[3] = chan[1]
    /\ buffer = << <<"/", "a", "b">>, <<"# total: ", 1>> >>

-----------------------------------------------------------------------------
(* Properties of a traced run, checked under Spec *)

\* C13, as the specification states it: with tracing, once the tracer loop
\* has ended by dropping the root child and the parent has waited for the
\* child, the status it got is Exited, and the parent ends with that status
\* after it has written the report.
C13_TracerEndThenExited ==
    (trace /\ hist.tracerEnd \in {"event_exit", "signal_stop"} /\ cproc = "reaped") =>
        /\ cstatus.kind = "exited"
        /\ pexitBy # "panic"
        /\ pexitBy = "main" => (pcode = ExitCode(cstatus.code) /\ ReportPath \in DOMAIN fs)

-----------------------------------------------------------------------------
(* Properties of the container's setup, checked under SpecSetup *)

\* The path of the parent's namespace that a path of the container names
InContainer(p) == append_all(container_root, <<p>>)

\* The rules after applicable[j] whose target is at or above its target
LaterAbove(j) ==
    {k \in (j + 1)..Len(applicable) :
        StartsWith(applicable[j].target, applicable[k].target)}

\* C14: in the child the first mount is the mirror of "/" on the container
\* root and the mounts after it are the applicable rules' bind mounts, one per
\* rule and in the order of the list; once all are in place, a lookup at the
\* target of a rule that no later rule covers resolves to that rule's rewrite,
\* so that of two rules with one target the later one wins.
C14_MountsInRuleOrder ==
    /\ Len(mounts) <= Len(applicable) + 1
    /\ cpc \in {"chdir", "remount", "traceme", "parked"} =>
          Len(mounts) = Len(applicable) + 1
    /\ mounts # <<>> => (mounts[1].src = Root /\ mounts[1].target = container_root)
    /\ \A i \in 2..Len(mounts) :
          /\ mounts[i].src = applicable[i - 1].rewrite
          /\ mounts[i].target = InContainer(applicable[i - 1].target)
    /\ cpc \in {"chdir", "remount", "traceme", "parked"} =>
          \A j \in 1..Len(applicable) :
              LaterAbove(j) = {} =>
                  Real(mounts, InContainer(applicable[j].target)) = applicable[j].rewrite

\* C14's case: rules "a" and "c" rewrite the same target, both are mounted,
\* and the target resolves to the rewrite of "c", the later one.
C14_Witness ==
    /\ cpc = "parked"
    /\ Len(applicable) = 2
    /\ applicable[1].name = "a"
    /\ applicable[2].name = "c"
    /\ Len(mounts) = 3
    /\ Real(mounts, InContainer(P("t", "a"))) = P("r", "c")

\* C15: once the child is past the remount, the mirror of "/" is read-only
\* exactly when immutable_root is set and every rule's bind mount is
\* read-write; before that, and without immutable_root, no mount is read-only.
C15_OnlyRootReadOnly ==
    /\ cpc \in {"traceme", "parked"} =>
          /\ mounts[1].ro = immutable_root
          /\ \A i \in 2..Len(mounts) : ~mounts[i].ro
    /\ (~immutable_root \/ cpc \in {"setup_root", "mount_root", "rules", "chdir", "remount"}) =>
          \A i \in 1..Len(mounts) : ~mounts[i].ro

\* C15's case: immutable_root, two rules mounted, the child stopped before
\* the spawn with a read-only root and rule mounts that are not.
C15_Witness ==
    /\ immutable_root
    /\ cpc = "parked"
    /\ Len(mounts) = 3
    /\ mounts[1].ro
    /\ ~mounts[2].ro
    /\ ~mounts[3].ro

\* No element of the sequence occurs in it twice
NoDup(q) == \A i, j \in 1..Len(q) : q[i] = q[j] => i = j

\* C18: when set_up_temporary_files has returned Ok, running it again on the
\* same rules and on the filesystem it left creates nothing and records
\* nothing; and no run records a path twice, whatever targets the rules share.
C18_SetUpTwice ==
    /\ ppc = "clone" =>
          set_up_temporary_files(fs, cwd, applicable, created_files, created_directories)
              = SetUp(TRUE, fs, created_files, created_directories)
    /\ NoDup(created_files \o created_directories)

\* C18's case: rules "a" and "c" share the target /t/a, the first run has
\* created it for "a" and recorded it once.
C18_Witness ==
    /\ ppc = "clone"
    /\ Len(applicable) = 2
    /\ applicable[1].name = "a"
    /\ applicable[2].name = "c"
    /\ created_directories = <<P("t", "a")>>
    /\ P("r", "c") \in DOMAIN fs

-----------------------------------------------------------------------------
(* Properties of append_all, checked under SpecAppend *)

\* A part without its leading "/"
Stripped(part) ==
    IF part # <<>> /\ part[1] = "/" THEN SubSeq(part, 2, Len(part)) ELSE part

\* The first n parts, each without its leading "/", one after the other
RECURSIVE Flat(_, _)
Flat(ps, n) == IF n = 0 THEN <<>> ELSE Flat(ps, n - 1) \o Stripped(ps[n])

\* C16: after any number of parts the buffer is the base followed by those
\* parts, each without its leading "/", so the base stays a component-wise
\* prefix of it; and what the loop ends with is append_all(base, parts).
C16_AppendAll ==
    /\ appendBuf = appendBase \o Flat(appendParts, appendIdx - 1)
    /\ StartsWith(appendBuf, appendBase)
    /\ appendIdx > Len(appendParts) => appendBuf = append_all(appendBase, appendParts)

\* C16's case: the absolute path /e/p joined under the container root.
C16_Witness ==
    /\ appendBase = container_root
    /\ appendParts = << <<"/", "e", "p">> >>
    /\ appendIdx = 2
    /\ appendBuf = <<"/", "tmp", "boxxy-containers", "n", "e", "p">>

-----------------------------------------------------------------------------
(* Properties of BoxxyConfig::merge, checked under SpecMerge *)

\* The number of rules in the first n of the configs
RECURSIVE RulesIn(_, _)
RulesIn(cs, n) == IF n = 0 THEN 0 ELSE RulesIn(cs, n - 1) + Len(cs[n])

\* C19: what merge has built from the configs it is past holds every rule of
\* every one of them, at the place that the order of the configs and the
\* order within its config give it, and nothing else: the length is the sum
\* of the lengths, so equal rules are kept and empty configs add nothing.
C19_MergeConcatenates ==
    /\ Len(merged) = RulesIn(mergeConfigs, mergeIdx - 1)
    /\ \A k \in 1..(mergeIdx - 1) :
          \A i \in 1..Len(mergeConfigs[k]) :
              merged[RulesIn(mergeConfigs, k - 1) + i] = mergeConfigs[k][i]

\* C19's case: three configs, an empty one between two that share a rule; the
\* rule is there twice and the order is the one of the inputs.
C19_Witness ==
    /\ mergeIdx = 4
    /\ Len(mergeConfigs) = 3
    /\ Len(mergeConfigs[1]) = 1
    /\ mergeConfigs[1][1].name = "a"
    /\ mergeConfigs[2] = <<>>
    /\ Len(mergeConfigs[3]) = 2
    /\ mergeConfigs[3][1].name = "a"
    /\ mergeConfigs[3][2].name = "f"
    /\ Len(merged) = 3
    /\ merged[1].name = "a"
    /\ merged[2].name = "a"
    /\ merged[3].name = "f"

-----------------------------------------------------------------------------
(* Properties of setup_root and cleanup_root, checked under SpecRoot *)

\* C20, as the specification states it: setup_root on a root that exists
\* succeeds and changes nothing; cleanup_root on a root that does not exist
\* succeeds and changes nothing; and after a cleanup_root that follows a
\* setup_root nothing at or under the root exists.
C20_RootIdempotent ==
    \A i \in 1..Len(rootCalls) :
        /\ (rootCalls[i].fn = "setup_root" /\ container_root \in DOMAIN rootCalls[i].before)
              => (rootCalls[i].ok /\ rootCalls[i].after = rootCalls[i].before)
        /\ (rootCalls[i].fn = "cleanup_root"
              /\ container_root \notin DOMAIN rootCalls[i].before)
              => (rootCalls[i].ok /\ rootCalls[i].after = rootCalls[i].before)
        /\ (rootCalls[i].fn = "cleanup_root" /\ \E j \in 1..(i - 1) :
                                                    rootCalls[j].fn = "setup_root")
              => Under(rootCalls[i].after, container_root) = {}

-----------------------------------------------------------------------------
(* Properties of maybe_resolve_symlink, checked under SpecResolve *)

\* The number of symlinks from p to what is not a symlink; -1 when there is
\* no end to them
OneMore(hops) == IF hops = -1 THEN -1 ELSE hops + 1

RECURSIVE Hops(_, _, _)
Hops(f, p, fuel) ==
    IF fuel = 0 THEN -1
    ELSE IF p \in DOMAIN f /\ f[p].kind = "link" THEN OneMore(Hops(f, f[p].to, fuel - 1))
    ELSE 0

ChainLength == Hops(fs, linkArg, Cardinality(DOMAIN fs) + 1)

\* C17, as the specification states it: maybe_resolve_symlink returns within
\* 10 calls of do_resolve_symlink; on a chain of more than 10 symlinks and on
\* a cycle of symlinks it returns the "too many symlinks" error; a path it
\* returns is not a symlink; a path that is not a symlink is returned as it is.
C17_ResolveBounded ==
    /\ linkCalls <= MaxSymlinkDepth
    /\ linkCalls = MaxSymlinkDepth => linkResult # Pending
    /\ linkResult # Pending =>
          /\ (ChainLength > MaxSymlinkDepth \/ ChainLength = -1)
                => linkResult = TooManySymlinks
          /\ ~IsErr(linkResult) => ~IsSymlink(fs, cwd, linkResult)
          /\ ~IsSymlink(fs, cwd, linkArg) => linkResult = linkArg

-----------------------------------------------------------------------------
(* Properties of the child's steps, checked under Spec *)

\* C21, as the specification states it: the child has mounted nothing and
\* has not entered the container root unless the parent has released it from
\* its SIGSTOP.
C21_NoMountBeforeRelease ==
    (mounts # <<>> \/ croot # "none") => hist.released

\* C21, amended: the child does all its mount work before it stops itself:
\* when it is stopped every mount is in place and the root is entered, and a
\* step that changes the mounts or enters the root is taken only by a child
\* that has not stopped yet and that the parent has not released.
C21_MountWorkBeforeStop ==
    /\ [](cpc \in {"parked", "waiting", "done"} =>
            (Len(mounts) = Len(applicable) + 1 /\ croot # "none"))
    /\ [][(mounts' # mounts \/ croot' # croot) =>
            (~hist.released /\ ~hist.stopSeen
             /\ cpc \in {"mount_root", "rules", "remount"})]_vars

\* C21's case: the parent has released a child that had two rules mounted
\* and the root entered when it stopped, and the child has spawned the command.
C21_Witness ==
    /\ hist.released
    /\ cpc = "waiting"
    /\ Len(mounts) = 3
    /\ croot # "none"

-----------------------------------------------------------------------------
(* Properties of the step before clone, checked under SpecSetup *)

\* The elements of a sequence
Range(q) == {q[i] : i \in 1..Len(q)}

\* The targets and the rewrites of the applicable rules
Targets == {applicable[i].target : i \in 1..Len(applicable)}
Rewrites == {applicable[i].rewrite : i \in 1..Len(applicable)}

\* C22, as the specification states it: when set_up_temporary_files has
\* returned Ok it has created nothing at a rule's target, and the paths it
\* has recorded are the rewrites it has created.
C22_OnlyRewritesCreated ==
    ppc = "clone" =>
        /\ \A t \in Targets : t \in DOMAIN fs => t \in DOMAIN BaseFs
        /\ Range(created_files \o created_directories) = Rewrites \ DOMAIN BaseFs

\* C22, amended: when set_up_temporary_files has returned Ok every rewrite and
\* every target exists; no rewrite is recorded; what is recorded are targets
\* that did not exist, files in created_files and directories in
\* created_directories, and every target that did not exist is recorded
\* unless it was made as the parent of the target of a rule before it.
C22_TargetsCreatedAndRecorded ==
    ppc = "clone" =>
        /\ Targets \cup Rewrites \subseteq DOMAIN fs
        /\ Range(created_files \o created_directories) \cap Rewrites = {}
        /\ Range(created_files \o created_directories) \subseteq Targets \ DOMAIN BaseFs
        /\ \A p \in Range(created_files) : fs[p].kind = "file"
        /\ \A p \in Range(created_directories) : fs[p].kind = "dir"
        /\ \A t \in Targets \ DOMAIN BaseFs :
              \/ t \in Range(created_files \o created_directories)
              \/ \E u \in Targets : u # t /\ StartsWith(u, t)

\* C22's case: one directory rule whose rewrite and target did not exist; both
\* have been created and the target alone is recorded.
C22_Witness ==
    /\ ppc = "clone"
    /\ Len(applicable) = 1
    /\ applicable[1].name = "a"
    /\ P("r", "a") \in DOMAIN fs
    /\ P("t", "a") \in DOMAIN fs
    /\ created_directories = <<P("t", "a")>>
    /\ created_files = <<>>

-----------------------------------------------------------------------------
(* The order of the child's steps, checked under Spec *)

\* The steps of the child, as the positions it is at before each of them
ChildOrder ==
    <<"none", "setup_root", "mount_root", "rules", "chdir", "remount", "traceme",
      "parked", "waiting", "done">>

\* The steps that lie before the spawn
BeforeSpawn == {ChildOrder[i] : i \in 2..8}

\* What the child has done when it is at a position
StepsDone ==
    /\ cpc \in {"setup_root", "mount_root"} => (mounts = <<>> /\ croot = "none")
    /\ cpc = "rules" =>
          /\ Len(mounts) = cIdx
          /\ mounts[1].src = Root
          /\ croot = "none"
          /\ cdir = Dir_in("host", cwd)
    /\ cpc \in {"chdir", "remount", "traceme", "parked", "waiting", "done"} =>
          /\ Len(mounts) = Len(applicable) + 1
          /\ croot = IF trace THEN "chroot" ELSE "pivot_root"
    /\ cpc = "chdir" => cdir.path # cwd \/ cdir.root # "container"
    /\ cpc \in {"chdir", "remount"} => \A i \in 1..Len(mounts) : ~mounts[i].ro
    /\ cpc \in {"remount", "traceme", "parked", "waiting", "done"} =>
          cdir = Dir_in("container", cwd)
    /\ cpc \in {"traceme", "parked", "waiting", "done"} => mounts[1].ro = immutable_root
    /\ cpc \in {"setup_root", "mount_root", "rules", "chdir", "remount", "traceme"} =>
          (cproc = "running" /\ ~hist.stopSeen)
    /\ cpc \in {"waiting", "done"} => (hist.stopSeen /\ hist.released)

\* C23: the child goes through its steps in the one order mirror mount, rule
\* mounts, entering the root, chdir, remount, traceme and SIGSTOP, spawn, each
\* step done before the next begins; a child that has failed at a step or
\* been killed takes no further step, so a step that fails before the spawn
\* leaves the command unspawned.
C23_ChildStepsInOrder ==
    /\ []StepsDone
    /\ [][cpc' # cpc =>
            \/ \E i \in 1..(Len(ChildOrder) - 1) :
                   cpc = ChildOrder[i] /\ cpc' = ChildOrder[i + 1]
            \/ cpc \in BeforeSpawn /\ cpc' \in {"dead", "killed"}
            \/ cpc = "waiting" /\ cpc' = "killed"]_vars

\* C23's case: a traced child that has gone through every step with two rules
\* and has spawned the command.
C23_Witness ==
    /\ cpc = "waiting"
    /\ trace
    /\ Len(mounts) = 3
    /\ croot = "chroot"
    /\ cdir = Dir_in("container", cwd)
    /\ hist.released

\* C24: map_uids and map_gids run the helper at most once more than the
\* mapping they were given has ids, whatever the helper does, a helper that
\* names an id the mapping does not hold included
C24_HelperCallsBounded == helperCalls <= Cardinality(idArg) + 1

\* C25: map_uids and map_gids return Ok only when the last run of the helper
\* exited with status zero and the mapping still holds an id; a helper that
\* fails without naming an id, or until no id is left, makes them return Err
C25_OkOnlyAfterSuccess ==
    idResult = "Ok" => (helperLast.status = 0 /\ idMap # {})

\* C26: of a process whose syscall-stops alternate between entry and exit,
\* the tracer publishes one Syscall event for every syscall whose entry it has
\* handled, read at the entry, and none read at an exit
C26_OneEventPerSyscallAtEntry ==
    \A p \in Pids :
        /\ \A i \in 1..Len(tx) : tx[i].pid = p => tx[i].at = "entry"
        /\ {tx[i].syscall : i \in {j \in 1..Len(tx) : tx[j].pid = p}} = 1..thist.entries[p]
        /\ Cardinality({j \in 1..Len(tx) : tx[j].pid = p}) = thist.entries[p]

\* C27: once the tracer has seen the root exit, by Exited or by
\* PTRACE_EVENT_EXIT, no process is left in children, no pid has been detached
\* more than once and Tracer::run has not returned an error
C27_RootExitStopsAll ==
    thist.rootExit =>
        /\ DOMAIN children = {}
        /\ \A p \in Pids : thist.detaches[p] <= 1
        /\ runResult \in {"running", "Ok"}

\* The processes the parent links lead to from p in at most n steps
RECURSIVE Above(_, _, _)
Above(ch, p, n) ==
    IF n = 0 \/ p \notin DOMAIN ch THEN {}
    ELSE ch[p].parent \cup UNION {Above(ch, q, n - 1) : q \in ch[p].parent}

\* C28: while the tracer runs and tracks a process, the root is tracked and is
\* the one tracked process without a parent; every other tracked process has
\* for parent the pid whose clone, fork or vfork event brought it in, and was
\* put in in state Created; and no process is above itself
C28_ParentLinksTree ==
    (runResult = "running" /\ DOMAIN children # {}) =>
        /\ thist.root \in DOMAIN children
        /\ \A p \in DOMAIN children : children[p].parent = {} <=> p = thist.root
        /\ \A p \in DOMAIN children \ {thist.root} :
              /\ thist.added[p] # {}
              /\ \A a \in thist.added[p] :
                    /\ children[p].parent = {a.by}
                    /\ a.as.parent = {a.by}
                    /\ a.as.state = "Created"
        /\ \A p \in DOMAIN children : p \notin Above(children, p, MaxPids)

\* Three processes are tracked, one below the other
C28_Witness ==
    /\ runResult = "running"
    /\ \E c, g \in DOMAIN children :
          /\ children[c].parent = {thist.root}
          /\ children[g].parent = {c}
          /\ children[g].state = "Running"

\* C29: after a report of a signal other than SIGTRAP, SIGSTOP, SIGTERM and
\* SIGKILL the process is still tracked and has been resumed with the signal;
\* a process is dropped on the report of a signal only for SIGTERM or SIGKILL
C29_OtherSignalsForwarded ==
    thist.last.status.kind \in {"Stopped", "Signaled"} =>
        /\ thist.last.status.signal \notin {"SIGTRAP", "SIGSTOP", "SIGTERM", "SIGKILL"}
              => /\ thist.last.pid \in DOMAIN children
                 /\ thist.last.resumed
                 /\ thist.last.inject = {thist.last.status.signal}
        /\ thist.last.pid \notin DOMAIN children
              => thist.last.status.signal \in {"SIGTERM", "SIGKILL"}

\* C30: a sweep visits pids in ascending order, and wait_on_child leaves no
\* tracked process in the stop it has reported: the process has been resumed
\* or is tracked no more
C30_EveryStopAnswered ==
    /\ \A i, j \in 1..Len(pids) : i < j => pids[i] < pids[j]
    /\ runResult = "running" => \A p \in DOMAIN children : procs[p].st # "held"

\* C31: the pids a sweep has still to visit are all in children: a pid taken
\* out of children during the sweep is not waited on later in the sweep
C31_NoStalePid ==
    runResult = "running" => \A i \in 1..Len(pids) : pids[i] \in DOMAIN children

\* C32: when the handling of a stop starts the register cache is empty, so
\* every string in the cache was read in the stop that is being handled; a
\* call the cache answers returns the cached string and reads no word of the
\* tracee's memory
C32_CachePerStop ==
    /\ rcall.calls = 0 => DOMAIN register_cache = {}
    /\ \A register \in DOMAIN register_cache :
          register_cache[register].stop = rcall.stop
    /\ rcall.hit =>
          /\ rcall.reads = 0
          /\ rcall.result = ReadResult("Ok", register_cache[rcall.register].s)

\* In the second stop a second call for the same register is answered by the
\* cache
C32_Witness ==
    /\ rcall.stop = 2
    /\ rcall.calls = 2
    /\ rcall.hit
    /\ rcall.result.s # <<>>

\* The bytes of the tracee's memory before the first NUL byte, or the first
\* PATH_MAX bytes when none of them is NUL
BeforeNul ==
    truncate(SubSeq(mem, 1, IF Len(mem) < PATH_MAX THEN Len(mem) ELSE PATH_MAX))

C34_WaitLoopEnds ==
    /\ [][(ppc = "wait_loop" /\ ppc' = "cleanup_root") =>
            \/ /\ cproc = "zombie"
               /\ cstatus.kind = "exited"
               /\ child_exit_status' = cstatus.code
            \/ /\ cproc = "reaped"
               /\ child_exit_status' = exit_status]_vars
    /\ [][(ppc = "wait_loop" /\ cproc = "zombie" /\ cstatus.kind # "exited" /\ cproc' # cproc)
            => (ppc' = "wait_loop" /\ cproc' = "reaped")]_vars
    /\ (ppc = "wait_loop" /\ cproc \in {"zombie", "reaped"}) ~> (ppc # "wait_loop")

\* The command was killed by a signal: the loop has gone round once and has
\* then ended on ECHILD
C34_Witness ==
    /\ ppc = "cleanup_root"
    /\ cstatus.kind = "signaled"
    /\ cproc = "reaped"
    /\ child_exit_status = exit_status

\* C35: when the sandboxed command has been ended by a signal, the parent
\* does not exit with status 0
C35_SignalNotSuccess ==
    (ppc = "exited" /\ cmd = "signal" /\ cpc = "done") => pcode # 0

\* The entries of a context list that do not exist on disk
MissingEntries(context) ==
    {k \in 1..Len(context) : ~Exists(fs, cwd, Tilde(context[k]))}

\* The entries of a context list that exist and hold the working directory
HoldingEntries(context) ==
    {k \in 1..Len(context) :
        /\ Exists(fs, cwd, Tilde(context[k]))
        /\ StartsWith(cwd, maybe_resolve_symlink(fs, cwd,
                                Canonicalize(fs, cwd, Tilde(context[k]))))}

\* A context list judged on its existing entries alone
OnExisting(context) ==
    IF context = <<>> \/ HoldingEntries(context) # {} THEN "yes" ELSE "no"

\* A context list judged entry by entry, in order, up to the first entry that
\* holds the working directory or does not exist
InOrder(context) ==
    IF context = <<>> THEN "yes"
    ELSE IF \E k \in MissingEntries(context) : \A j \in HoldingEntries(context) : k < j
    THEN "err"
    ELSE IF HoldingEntries(context) # {} THEN "yes"
    ELSE "no"

\* C36, as the specification states it: a context entry that does not exist
\* on disk is passed over, the rule is judged on its other entries, and the
\* filter does not fail on it.
C36_MissingContextSkipped ==
    /\ \A i \in Seen \cup (IF ppc = "exited" THEN {rIdx} ELSE {}) :
          currently_in_context(fs, cwd, rules[i]) = OnExisting(rules[i].context)
    /\ (ppc = "exited" /\ pexitBy = "error") =>
          MissingEntries(rules[rIdx].context) = {}

\* C36, as the code has it: the entries are tried in order; an entry that does
\* not exist, met before an entry that holds the working directory, makes
\* currently_in_context return the error, and the filter then fails as a
\* whole: no rule with such a context is ever passed.
C36_MissingContextFails ==
    /\ \A i \in 1..Len(rules) :
          currently_in_context(fs, cwd, rules[i]) = InOrder(rules[i].context)
    /\ \A i \in Seen : InOrder(rules[i].context) # "err"
    /\ ppc = "tmpfiles" => \A i \in 1..Len(rules) : InOrder(rules[i].context) # "err"
    /\ (ppc = "exited" /\ pexitBy = "error") =>
          \/ InOrder(rules[rIdx].context) = "err"
          \/ applies_to_binary(fs, cwd, rules[rIdx], prog) = "err"

\* C36's case: the filter has failed on a rule whose context names a missing
\* directory ahead of one that holds the working directory, for a program the
\* rule applies to.
C36_Witness ==
    /\ ppc = "exited"
    /\ pexitBy = "error"
    /\ rIdx <= Len(rules)
    /\ \E k \in MissingEntries(rules[rIdx].context) :
          \E j \in HoldingEntries(rules[rIdx].context) : k < j
    /\ applies_to_binary(fs, cwd, rules[rIdx], prog) = "yes"

\* test_program's first comparison: the entry's file name is the program
ByBasename(program, entry) == FileName(entry) # <<>> /\ program = FileName(entry)

\* The second: the entry, as written, is the program
ByString(program, entry) == program = entry

\* The third: the entry canonicalizes to the expanded program
ByCanonical(program, entry) ==
    /\ Exists(fs, cwd, entry)
    /\ Canonicalize(fs, cwd, entry) = fully_expand_path(fs, cwd, program)

\* The fourth: both are the same file once symlinks are resolved
BySymlinks(program, entry) ==
    /\ Exists(fs, cwd, entry)
    /\ maybe_resolve_symlink(fs, cwd, Canonicalize(fs, cwd, entry))
         = maybe_resolve_symlink(fs, cwd, fully_expand_path(fs, cwd, program))

\* The fifth: `which` finds the same executable for both, and finds one
ByWhich(program, entry) ==
    /\ which(fs, cwd, entry) = which(fs, cwd, program)
    /\ which(fs, cwd, entry) # <<>>

\* The else branch of test_program: the entry cannot be canonicalized and is
\* the file name of the resolved program (or the resolved program, when that
\* has no file name)
ByResolvedName(program, entry) ==
    /\ ~Exists(fs, cwd, entry)
    /\ entry = IF FileName(maybe_resolve_symlink(fs, cwd,
                                fully_expand_path(fs, cwd, program))) # <<>>
               THEN FileName(maybe_resolve_symlink(fs, cwd,
                                fully_expand_path(fs, cwd, program)))
               ELSE maybe_resolve_symlink(fs, cwd, fully_expand_path(fs, cwd, program))

FiveCriteria(program, entry) ==
    \/ ByBasename(program, entry)
    \/ ByString(program, entry)
    \/ ByCanonical(program, entry)
    \/ BySymlinks(program, entry)
    \/ ByWhich(program, entry)

\* C37, as the specification states it: a rule that is in every context is
\* selected exactly when its only list is empty or one of its entries matches
\* the program by one of the five criteria.
C37_FiveCriteria ==
    \A i \in Seen :
        CountIn(picked, i) > 0
            <=> \/ rules[i].only = <<>>
                \/ \E j \in 1..Len(rules[i].only) : FiveCriteria(prog, rules[i].only[j])

\* C37, as the code has it: there is a sixth criterion, for an entry that
\* cannot be canonicalized: the entry is the file name of the program once
\* the program is expanded and its symlinks resolved. The filter does not
\* fail, and two names that `which` finds nowhere do not match by `which`.
C37_SixCriteria ==
    /\ ppc # "exited"
    /\ \A i \in Seen :
          /\ CountIn(picked, i) > 0
                <=> applies_to_binary(fs, cwd, rules[i], prog) = "yes"
          /\ applies_to_binary(fs, cwd, rules[i], prog) = "yes"
                <=> \/ rules[i].only = <<>>
                    \/ \E j \in 1..Len(rules[i].only) :
                          \/ FiveCriteria(prog, rules[i].only[j])
                          \/ ByResolvedName(prog, rules[i].only[j])

\* C37's case: the program is a symlink to ls given by its path, the only
\* list names ls, which is no file in the working directory, and the rule has
\* been selected by the sixth criterion alone.
C37_Witness ==
    /\ ppc = "tmpfiles"
    /\ \E i \in 1..Len(rules) :
          /\ CountIn(picked, i) > 0
          /\ Len(rules[i].only) = 1
          /\ ByResolvedName(prog, rules[i].only[1])
          /\ ~FiveCriteria(prog, rules[i].only[1])

\* The variables of the .env file that are loaded
DotenvLoaded ==
    IF envIn.dotenv /\ envIn.dotfile.found THEN envIn.dotfile.env ELSE <<>>

\* The applicable rules that set the variable k, by their place in the ruleset
SettingRules(k) ==
    {i \in 1..Len(envIn.rules) : envIn.rules[i].applies /\ k \in DOMAIN envIn.rules[i].env}

\* The last of a set of places
LastOf(S) == CHOOSE i \in S : \A j \in S : j <= i

\* C38: the command is spawned with the variables of the parent, of the .env
\* file when dotenv is enabled and of the applicable rules, and with no
\* other; a variable has the value of the last applicable rule that sets
\* it, else that of the .env file, else that of the parent.
C38_EnvLayers ==
    envPc = "spawned" =>
        /\ DOMAIN spawn_env
             = DOMAIN envIn.parent \cup DOMAIN DotenvLoaded
               \cup {k \in {"A", "B"} : SettingRules(k) # {}}
        /\ \A k \in DOMAIN spawn_env :
              spawn_env[k]
                = IF SettingRules(k) # {} THEN envIn.rules[LastOf(SettingRules(k))].env[k]
                  ELSE IF k \in DOMAIN DotenvLoaded THEN DotenvLoaded[k]
                  ELSE envIn.parent[k]

\* C38's case: A is set by the parent, by the .env file and by two applicable
\* rules that disagree, the second has won, and a rule that is not
\* applicable sets B, which the command does not have.
C38_Witness ==
    /\ envPc = "spawned"
    /\ "A" \in DOMAIN envIn.parent
    /\ "A" \in DOMAIN DotenvLoaded
    /\ \E i, j \in SettingRules("A") :
          /\ i < j
          /\ envIn.rules[i].env["A"] # envIn.rules[j].env["A"]
          /\ envIn.rules[j].env["A"] # DotenvLoaded["A"]
          /\ spawn_env["A"] = envIn.rules[j].env["A"]
    /\ \E i \in 1..Len(envIn.rules) : ~envIn.rules[i].applies /\ "B" \in DOMAIN envIn.rules[i].env
    /\ "B" \notin DOMAIN spawn_env

\* The syscalls of the tables that take a directory fd first and the
\* pathname second
DirfdPathSyscalls ==
    {"openat", "unlinkat", "mkdirat", "renameat", "renameat2", "linkat", "fchownat",
     "fchmodat", "mknodat", "faccessat", "faccessat2", "newfstatat", "statx"}

\* The register of the second argument
SecondArgument(arch) == IF arch = "x86_64" THEN "Rsi" ELSE "A1"

\* C40: at every point of the table's construction, each syscall in the table
\* that takes a directory fd and then the pathname is mapped to the register of
\* its second argument, so no insert ever maps one of them to another register.
C40_DirfdSyscallsReadSecond ==
    \A name \in DirfdPathSyscalls \cap DOMAIN syscall_registers :
        syscall_registers[name] = SecondArgument(sysArch)

\* The value of the register the table names for the call's syscall
PathArgument == fdCall.registers[syscall_registers[fdCall.syscall_no]]

\* The link of a descriptor reads `pipe:[N]`
ReadsAsPipe(link) == StartsWith(link, PipePrefix)

\* C39: when the register of the path argument holds a descriptor, the path
\* reported is none for a pipe and for a link that cannot be read, and the
\* target of the link for any other descriptor.
C39_FdPaths ==
    (/\ fdCall.done
     /\ fdCall.syscall_no \in DOMAIN syscall_registers
     /\ PathArgument \in Fds) =>
        IF proc_fd[PathArgument] = None THEN fdCall.path = None
        ELSE \A link \in proc_fd[PathArgument] :
                fdCall.path = IF ReadsAsPipe(link) THEN None ELSE Some(link)

====
